---- MODULE Spec2Model ----
(***************************************************************************)
(* Attendance tracker: the student record service (students and history   *)
(* collections of the document store), the assistant record service, the   *)
(* login service and their request handlers.                               *)
(*                                                                         *)
(* JavaScript scalars are written as strings: Undefined and Null are the   *)
(* two sentinels, "" is the empty string, numbers are numerals ("16").     *)
(* Week numbers, ids and status codes are integers.  An absent             *)
(* attendanceWeek is the empty tuple, a present one the 1-tuple <<n>>.     *)
(***************************************************************************)
EXTENDS Integers, Sequences, FiniteSets, TLC

VARIABLES students, history, assistants, resp, procs, overlapped, orphans,
          scan, shell, info

vars == <<students, history, assistants, resp, procs, overlapped, orphans,
         scan, shell, info>>

\* the state of the pages in the browser: the scan page, the application
\* shell and the session-info page
front == <<scan, shell, info>>

\* the state of the server
back == <<students, history, assistants, resp, procs, overlapped, orphans>>

\* orphans is a history variable of the model: the {studentId, week} pairs of
\* which the store holds a record that was there when its student was deleted

----------------------------------------------------------------------------
(* Bounds of the model *)

MaxStudents == 2
MaxHistory == 2
MaxWeekIn == 2
NumProcs == 2
MaxAssistants == 2

\* ids stay within one more than the number of students the store can hold
MaxId == MaxStudents + 1

(* Program constants *)

NumWeeks == 20

----------------------------------------------------------------------------
(* JavaScript values *)

Undefined == "undefined"
Null == "null"

Falsy(v) == v \in {Undefined, Null, "", "0"}

OrNull(v) == IF Falsy(v) THEN Null ELSE v

----------------------------------------------------------------------------
(* Bearer tokens and the auth gates *)

\* no Authorization header, a token whose signature fails, a token past its
\* expiry, and signed unexpired tokens of an assistant and of an admin
NoToken == "none"
BadToken == "bad"
ExpiredToken == "expired"
GoodToken == "good"
AdminToken == "admin"

Tokens == {NoToken, BadToken, ExpiredToken, GoodToken, AdminToken}

\* jwt.verify(token, JWT_SECRET) returns the payload
Verifies(tok) == tok \in {GoodToken, AdminToken}

\* decoded.role
Role(tok) == IF tok = AdminToken THEN "admin" ELSE "assistant"

\* the message jwt.verify throws with
JwtError(tok) == IF tok = ExpiredToken THEN "jwt expired" ELSE "invalid signature"

\* the gate of the student and history handlers with their catch block
authMiddleware(tok) == IF Verifies(tok) THEN 200 ELSE 401

\* variant: the role of the token is not tested
requireAdminAnyRole(tok) ==
  IF tok = NoToken THEN "Unauthorized"
  ELSE IF ~ Verifies(tok) THEN JwtError(tok)
  ELSE ""

\* the gate of the assistant handlers: the message of the error it throws,
\* "" when it returns the payload
requireAdmin(tok) ==
  IF tok = NoToken THEN "Unauthorized"
  ELSE IF ~ Verifies(tok) THEN JwtError(tok)
  ELSE IF Role(tok) # "admin" THEN "Forbidden: Admins only"
  ELSE ""

\* the catch block of the assistant handlers
CatchStatus(message) ==
  IF message = "Unauthorized" THEN 401
  ELSE IF message = "Forbidden: Admins only" THEN 403
  ELSE 500

CatchBody(message) ==
  IF message \in {"Unauthorized", "Forbidden: Admins only"}
    THEN [error |-> message]
    ELSE [error |-> "Internal server error"]

----------------------------------------------------------------------------
(* Week records *)

\* variant: the weeks are numbered from 0
ZeroWeekFromZero(i) ==
  [week |-> i - 1, attended |-> FALSE, lastAttendance |-> Null,
   lastAttendanceCenter |-> Null, hwDone |-> FALSE, paidSession |-> FALSE,
   quizDegree |-> Null, message_state |-> FALSE]

ZeroWeek(i) ==
  [week |-> i, attended |-> FALSE, lastAttendance |-> Null,
   lastAttendanceCenter |-> Null, hwDone |-> FALSE, paidSession |-> FALSE,
   quizDegree |-> Null, message_state |-> FALSE]

NewWeeks == [i \in 1..NumWeeks |-> ZeroWeek(i)]

----------------------------------------------------------------------------
(* Document store primitives *)

Indexes(coll, id) == {i \in 1..Len(coll) : coll[i].id = id}

Min(S) == CHOOSE x \in S : \A y \in S : x <= y

Max(S) == CHOOSE x \in S : \A y \in S : x >= y

\* findOne({id}): position of the first document with this id, 0 when none
FindOne(coll, id) == IF Indexes(coll, id) = {} THEN 0 ELSE Min(Indexes(coll, id))

RemoveAt(coll, i) == SubSeq(coll, 1, i - 1) \o SubSeq(coll, i + 1, Len(coll))

\* variant: the id of the last student is reused as it is
NewIdOfLast(coll) == IF Len(coll) > 0 THEN Max({coll[i].id : i \in 1..Len(coll)}) ELSE 1

\* variant: the next id taken from the number of documents
NewIdByCount(coll) == Len(coll) + 1

\* find().sort({id: -1}).limit(1), then lastStudent[0].id + 1 or 1
NewId(coll) == IF Len(coll) > 0 THEN Max({coll[i].id : i \in 1..Len(coll)}) + 1 ELSE 1

Respond(op, status) == resp' = [op |-> op, status |-> status]

----------------------------------------------------------------------------
(* Request bodies drawn by the model *)

AliBody ==
  [name |-> "Ali", grade |-> "1st Secondary", phone |-> "01234567891",
   parents_phone |-> "01234567892", main_center |-> "Giza", age |-> "16",
   school |-> "X"]

CreateBodies ==
  {AliBody, [AliBody EXCEPT !.name = ""], [AliBody EXCEPT !.age = Undefined],
   [AliBody EXCEPT !.main_center = Undefined]}


Ids == 1..MaxId

----------------------------------------------------------------------------
(* POST /students *)

CreateValid(b) ==
  ~ (Falsy(b.name) \/ Falsy(b.grade) \/ Falsy(b.phone) \/ Falsy(b.parents_phone)
     \/ Falsy(b.main_center) \/ b.age = Undefined \/ Falsy(b.school))

NewStudent(newId, b) ==
  [id |-> newId, name |-> b.name, age |-> b.age, grade |-> b.grade,
   school |-> b.school, phone |-> b.phone, parentsPhone |-> b.parents_phone,
   main_center |-> b.main_center, weeks |-> NewWeeks]

Create(tok, b) ==
  /\ UNCHANGED front
  /\ UNCHANGED <<history, assistants, procs, overlapped, orphans>>
  /\ IF authMiddleware(tok) # 200
       THEN Respond("create", 401) /\ UNCHANGED students
     ELSE IF ~ CreateValid(b)
       THEN Respond("create", 400) /\ UNCHANGED students
     ELSE /\ Len(students) < MaxStudents
          /\ NewId(students) <= MaxId
          /\ students' = Append(students, NewStudent(NewId(students), b))
          /\ Respond("create", 200)

----------------------------------------------------------------------------
(* PUT /students/:id *)

UpdateBodies ==
  [name : {Undefined, Null, "", "Omar"}, grade : {Undefined},
   phone : {Undefined}, parents_phone : {Undefined, "01234567893"},
   main_center : {Undefined}, age : {Undefined, "17"}, school : {Undefined, ""}]

NoFields == [f \in DOMAIN AliBody |-> Undefined]

Defined(v) == v # Undefined /\ v # Null

\* the update object: request field -> stored field, for the fields kept
BuildUpdate(b) ==
  [f \in {"name", "grade", "phone", "parentsPhone", "main_center", "age", "school"} |->
     IF f = "parentsPhone" THEN b.parents_phone ELSE b[f]]

UpdateKeys(b) ==
  {f \in DOMAIN BuildUpdate(b) : Defined(BuildUpdate(b)[f])}

\* $set of the update object on one document
ApplySet(doc, b) ==
  [f \in DOMAIN doc |-> IF f \in UpdateKeys(b) THEN BuildUpdate(b)[f] ELSE doc[f]]

Update(tok, id, b) ==
  /\ UNCHANGED front
  /\ UNCHANGED <<history, assistants, procs, overlapped, orphans>>
  /\ IF authMiddleware(tok) # 200
       THEN Respond("update", 401) /\ UNCHANGED students
     ELSE IF UpdateKeys(b) = {}
       THEN Respond("update", 400) /\ UNCHANGED students
     ELSE IF FindOne(students, id) = 0
       THEN Respond("update", 404) /\ UNCHANGED students
     ELSE /\ students' = [students EXCEPT ![FindOne(students, id)] = ApplySet(@, b)]
          /\ Respond("update", 200)

----------------------------------------------------------------------------
(* DELETE /students/:id *)

\* the records of a student that is being deleted
OrphansOf(h, id) == {h[k] : k \in {j \in 1..Len(h) : h[j].studentId = id}}

\* variant: the history records of the student are deleted with it
DeleteCascade(tok, id) ==
  /\ UNCHANGED front
  /\ UNCHANGED <<assistants, procs, overlapped, orphans>>
  /\ IF authMiddleware(tok) # 200
       THEN Respond("delete", 401) /\ UNCHANGED <<students, history>>
     ELSE IF FindOne(students, id) = 0
       THEN Respond("delete", 404) /\ UNCHANGED <<students, history>>
     ELSE /\ students' = RemoveAt(students, FindOne(students, id))
          /\ history' = SelectSeq(history, LAMBDA r : r.studentId # id)
          /\ Respond("delete", 200)

Delete(tok, id) ==
  /\ UNCHANGED front
  /\ UNCHANGED <<history, assistants, procs, overlapped>>
  /\ IF authMiddleware(tok) # 200
       THEN Respond("delete", 401) /\ UNCHANGED <<students, orphans>>
     ELSE IF FindOne(students, id) = 0
       THEN Respond("delete", 404) /\ UNCHANGED <<students, orphans>>
     ELSE /\ students' = RemoveAt(students, FindOne(students, id))
          /\ orphans' = orphans \cup OrphansOf(history, id)
          /\ Respond("delete", 200)

----------------------------------------------------------------------------
(* POST /students/:id/reset *)

\* variant: only the attendance of each week is cleared
ResetAttendance(tok, id) ==
  /\ UNCHANGED front
  /\ UNCHANGED <<history, assistants, procs, overlapped, orphans>>
  /\ IF authMiddleware(tok) # 200
       THEN Respond("reset", 401) /\ UNCHANGED students
     ELSE IF FindOne(students, id) = 0
       THEN Respond("reset", 404) /\ UNCHANGED students
     ELSE /\ students' = [students EXCEPT ![FindOne(students, id)].weeks =
                           [i \in 1..Len(@) |-> [@[i] EXCEPT !.attended = FALSE]]]
          /\ Respond("reset", 200)

Reset(tok, id) ==
  /\ UNCHANGED front
  /\ UNCHANGED <<history, assistants, procs, overlapped, orphans>>
  /\ IF authMiddleware(tok) # 200
       THEN Respond("reset", 401) /\ UNCHANGED students
     ELSE IF FindOne(students, id) = 0
       THEN Respond("reset", 404) /\ UNCHANGED students
     ELSE /\ students' = [students EXCEPT ![FindOne(students, id)].weeks = NewWeeks]
          /\ Respond("reset", 200)

----------------------------------------------------------------------------
(* POST /students/:id/attend *)

\* attendanceWeek absent, below 1, the first weeks, and past the last week
AttendanceWeeks(last) == {<< >>} \cup {<<n>> : n \in (-1)..last} \cup {<<NumWeeks + 1>>}

Stamped(last) ==
  [attended : BOOLEAN, lastAttendance : {"01/01/2025 in Giza"},
   lastAttendanceCenter : {"Giza"}, attendanceWeek : AttendanceWeeks(last)]

Unstamped ==
  [attended : {TRUE}, lastAttendance : {Undefined, ""},
   lastAttendanceCenter : {Undefined}, attendanceWeek : {<<1>>}]

AttendBodies == Stamped(MaxWeekIn) \cup Unstamped

\* const weekNumber = attendanceWeek || 1
WeekNumber(b) ==
  IF b.attendanceWeek = << >> \/ b.attendanceWeek[1] = 0 THEN 1 ELSE b.attendanceWeek[1]

WeekIndex(b) == WeekNumber(b) - 1

\* !student.weeks || student.weeks.length <= weekIndex
WeekOutOfBounds(doc, b) == Len(doc.weeks) <= WeekIndex(b)

\* the store accepts a positional path weeks.<i>.<field> only for an index i >= 0
PathViable(b) == WeekIndex(b) >= 0

\* variant: the date and the center are stored as they were sent
MarkAttendedAsSent(w, b) ==
  [w EXCEPT !.attended = TRUE,
            !.lastAttendance = b.lastAttendance,
            !.lastAttendanceCenter = b.lastAttendanceCenter]

\* variant: the week is written afresh
MarkAttendedFresh(w, b) ==
  [w EXCEPT !.attended = TRUE,
            !.lastAttendance = OrNull(b.lastAttendance),
            !.lastAttendanceCenter = OrNull(b.lastAttendanceCenter),
            !.hwDone = FALSE, !.paidSession = FALSE, !.quizDegree = Null,
            !.message_state = FALSE]

MarkAttended(w, b) ==
  [w EXCEPT !.attended = TRUE,
            !.lastAttendance = OrNull(b.lastAttendance),
            !.lastAttendanceCenter = OrNull(b.lastAttendanceCenter)]

\* variant: only the attendance fields are cleared
MarkNotAttendedOnly(w) ==
  [w EXCEPT !.attended = FALSE, !.lastAttendance = Null, !.lastAttendanceCenter = Null]

MarkNotAttended(w) ==
  [w EXCEPT !.attended = FALSE, !.lastAttendance = Null,
            !.lastAttendanceCenter = Null, !.hwDone = FALSE,
            !.paidSession = FALSE, !.quizDegree = Null, !.message_state = FALSE]

\* updateOne({id}, {$set: weeks.<weekIndex>.*})
SetWeek(coll, id, b) ==
  [coll EXCEPT ![FindOne(coll, id)].weeks[WeekIndex(b) + 1] =
     IF b.attended THEN MarkAttended(@, b) ELSE MarkNotAttended(@)]

HistoryRecord(id, week) == [studentId |-> id, week |-> week]

\* variant: deleteOne in place of deleteMany
DeleteFirst(h, id, week) ==
  IF \E k \in 1..Len(h) : h[k] = [studentId |-> id, week |-> week]
    THEN RemoveAt(h, Min({k \in 1..Len(h) : h[k] = [studentId |-> id, week |-> week]}))
    ELSE h

\* variant: the filter matches on week alone
DeleteManyOfWeek(h, id, week) == SelectSeq(h, LAMBDA r : r.week # week)

\* deleteMany({studentId, week})
DeleteMany(h, id, week) == SelectSeq(h, LAMBDA r : r # HistoryRecord(id, week))

\* the handler, whoever sent the request
AttendCall(tok, id, b) ==
  /\ UNCHANGED <<assistants, procs, overlapped>>
  /\ IF authMiddleware(tok) # 200
       THEN Respond("attend", 401) /\ UNCHANGED <<students, history, orphans>>
     ELSE IF FindOne(students, id) = 0
       THEN Respond("attend", 404) /\ UNCHANGED <<students, history, orphans>>
     ELSE IF WeekOutOfBounds(students[FindOne(students, id)], b)
       THEN Respond("attend", 400) /\ UNCHANGED <<students, history, orphans>>
     ELSE IF ~ PathViable(b)
       THEN Respond("attend", 500) /\ UNCHANGED <<students, history, orphans>>
     ELSE /\ b.attended => Len(history) < MaxHistory
          /\ students' = SetWeek(students, id, b)
          /\ history' = IF b.attended
                          THEN Append(history, HistoryRecord(id, WeekNumber(b)))
                          ELSE DeleteMany(history, id, WeekNumber(b))
          /\ orphans' = IF b.attended
                          THEN orphans
                          ELSE orphans \ {HistoryRecord(id, WeekNumber(b))}
          /\ Respond("attend", 200)

Attend(tok, id, b) == AttendCall(tok, id, b) /\ UNCHANGED front

----------------------------------------------------------------------------
(* Homework, payment and quiz-grade updates of one week *)

FieldWeeks == {1}

SetField(coll, id, week, field, value) ==
  [coll EXCEPT ![FindOne(coll, id)].weeks[week] = [@ EXCEPT ![field] = value]]

\* the handler, whoever sent the request
UpdateFieldCall(op, field, tok, id, week, value) ==
  /\ UNCHANGED <<history, assistants, procs, overlapped, orphans>>
  /\ IF authMiddleware(tok) # 200
       THEN Respond(op, 401) /\ UNCHANGED students
     ELSE IF FindOne(students, id) = 0
       THEN Respond(op, 404) /\ UNCHANGED students
     ELSE /\ students' = SetField(students, id, week, field, value)
          /\ Respond(op, 200)

UpdateField(op, field, tok, id, week, value) == UpdateFieldCall(op, field, tok, id, week, value) /\ UNCHANGED front

UpdateHomework(tok, id, week, hwDone) ==
  UpdateField("homework", "hwDone", tok, id, week, hwDone)

UpdatePayment(tok, id, week, paidSession) ==
  UpdateField("payment", "paidSession", tok, id, week, paidSession)

UpdateQuizGrade(tok, id, week, quizDegree) ==
  UpdateField("quiz", "quizDegree", tok, id, week, quizDegree)

----------------------------------------------------------------------------
(* GET /students/:id and GET /students *)

Reply(op, status, body) == resp' = [op |-> op, status |-> status, body |-> body]

\* variant: the last attended week is taken
CurrentWeekLast(doc) ==
  IF \E i \in 1..Len(doc.weeks) : doc.weeks[i].attended
    THEN doc.weeks[Max({i \in 1..Len(doc.weeks) : doc.weeks[i].attended})]
    ELSE doc.weeks[1]

\* student.weeks.find(w => w.attended) || student.weeks[0]
CurrentWeek(doc) ==
  IF \E i \in 1..Len(doc.weeks) : doc.weeks[i].attended
    THEN doc.weeks[Min({i \in 1..Len(doc.weeks) : doc.weeks[i].attended})]
    ELSE doc.weeks[1]

\* String(n).padStart(2, '0') of a week number
PadStart(n) == IF n < 10 THEN "0" \o ToString(n) ELSE ToString(n)

AttendanceWeekLabel(w) == "week " \o PadStart(w.week)

\* the dd/mm/yyyy part matched in a stored date, the whole string when none
DateStr(s) == IF s = "01/01/2025 in Giza" THEN "01/01/2025" ELSE s

\* GET one rewrites lastAttendance as "<date> in <center>" when both are set
Reformatted(w) ==
  IF ~ Falsy(w.lastAttendance) /\ ~ Falsy(w.lastAttendanceCenter)
    THEN DateStr(w.lastAttendance) \o " in " \o w.lastAttendanceCenter
    ELSE w.lastAttendance

StudentView(doc, w, lastAttendance) ==
  [id |-> doc.id, name |-> doc.name, grade |-> doc.grade, phone |-> doc.phone,
   parents_phone |-> doc.parentsPhone, center |-> Undefined,
   main_center |-> doc.main_center, attended_the_session |-> w.attended,
   lastAttendance |-> lastAttendance,
   lastAttendanceCenter |-> w.lastAttendanceCenter,
   attendanceWeek |-> AttendanceWeekLabel(w), hwDone |-> w.hwDone,
   paidSession |-> w.paidSession, school |-> OrNull(doc.school),
   age |-> OrNull(doc.age), quizDegree |-> w.quizDegree,
   message_state |-> w.message_state, weeks |-> doc.weeks]

\* the body of GET /students/:id for a document of the store
StudentInfo(doc) == StudentView(doc, CurrentWeek(doc), Reformatted(CurrentWeek(doc)))

\* one element of the body of GET /students
MappedStudent(doc) == StudentView(doc, CurrentWeek(doc), CurrentWeek(doc).lastAttendance)

MappedStudents(coll) == [i \in 1..Len(coll) |-> MappedStudent(coll[i])]

\* the handler, whoever sent the request
GetStudentCall(tok, id) ==
  /\ UNCHANGED <<students, history, assistants, procs, overlapped, orphans>>
  /\ IF authMiddleware(tok) # 200
       THEN Reply("getStudent", 401, [error |-> "Unauthorized"])
     ELSE IF FindOne(students, id) = 0
       THEN Reply("getStudent", 404, [error |-> "Student not found"])
     ELSE Reply("getStudent", 200, [data |-> StudentInfo(students[FindOne(students, id)])])

GetStudent(tok, id) == GetStudentCall(tok, id) /\ UNCHANGED front

GetStudents(tok) ==
  /\ UNCHANGED front
  /\ UNCHANGED <<students, history, assistants, procs, overlapped, orphans>>
  /\ IF authMiddleware(tok) # 200
       THEN Reply("getStudents", 401, [error |-> "Unauthorized"])
     ELSE Reply("getStudents", 200, [data |-> MappedStudents(students)])

----------------------------------------------------------------------------
(* GET /history *)

\* studentMap.get(id): the last document set under this id, 0 when none
StudentMapGet(coll, id) == IF Indexes(coll, id) = {} THEN 0 ELSE Max(Indexes(coll, id))

\* variant: the second early return tests only that the week data exists
RowSurvivesUnattended(coll, r) ==
  /\ StudentMapGet(coll, r.studentId) # 0
  /\ r.week \in 1..Len(coll[StudentMapGet(coll, r.studentId)].weeks)

\* the record passes both early returns of the forEach body
RowSurvives(coll, r) ==
  /\ StudentMapGet(coll, r.studentId) # 0
  /\ r.week \in 1..Len(coll[StudentMapGet(coll, r.studentId)].weeks)
  /\ coll[StudentMapGet(coll, r.studentId)].weeks[r.week].attended

OrNA(v) == IF Falsy(v) THEN "n/a" ELSE v

EnrichedRecord(doc, r) ==
  [studentId |-> r.studentId, week |-> r.week,
   main_center |-> OrNA(doc.main_center),
   center |-> OrNA(doc.weeks[r.week].lastAttendanceCenter),
   attendanceDate |-> OrNA(doc.weeks[r.week].lastAttendance),
   hwDone |-> doc.weeks[r.week].hwDone,
   paidSession |-> doc.weeks[r.week].paidSession,
   quizDegree |-> OrNull(doc.weeks[r.week].quizDegree),
   message_state |-> doc.weeks[r.week].message_state]

SurvivingRecords(coll, h) == SelectSeq(h, LAMBDA r : RowSurvives(coll, r))

RecordsOf(coll, h, id) == SelectSeq(SurvivingRecords(coll, h), LAMBDA r : r.studentId = id)

HistoryGroup(coll, h, id) ==
  [id |-> coll[StudentMapGet(coll, id)].id,
   name |-> coll[StudentMapGet(coll, id)].name,
   grade |-> coll[StudentMapGet(coll, id)].grade,
   school |-> coll[StudentMapGet(coll, id)].school,
   phone |-> coll[StudentMapGet(coll, id)].phone,
   parentsPhone |-> coll[StudentMapGet(coll, id)].parentsPhone,
   historyRecords |->
     [k \in 1..Len(RecordsOf(coll, h, id)) |->
        EnrichedRecord(coll[StudentMapGet(coll, id)], RecordsOf(coll, h, id)[k])]]

GroupedIds(coll, h) ==
  {SurvivingRecords(coll, h)[k].studentId : k \in 1..Len(SurvivingRecords(coll, h))}

RECURSIVE SortAscending(_)

\* variant: the comparator is b.id - a.id
SortDescending(S) ==
  [k \in 1..Cardinality(S) |-> CHOOSE x \in S : Cardinality({y \in S : y > x}) = k - 1]

\* Array.from(...).sort((a, b) => a.id - b.id), on the ids of the groups
SortAscending(S) ==
  IF S = {} THEN << >> ELSE <<Min(S)>> \o SortAscending(S \ {Min(S)})

HistoryGet(coll, h) ==
  [k \in 1..Cardinality(GroupedIds(coll, h)) |->
     HistoryGroup(coll, h, SortAscending(GroupedIds(coll, h))[k])]

GetHistory(tok) ==
  /\ UNCHANGED front
  /\ UNCHANGED <<students, history, assistants, procs, overlapped, orphans>>
  /\ IF authMiddleware(tok) # 200
       THEN Reply("getHistory", 401, [error |-> "Unauthorized"])
     ELSE Reply("getHistory", 200, [data |-> HistoryGet(students, history)])

----------------------------------------------------------------------------
(* Assistants: GET, POST /assistants and GET, PUT, DELETE /assistants/:id *)

AssistantIds == {"a1", "a2", "a3"}

\* bcrypt.hash(password, 10)
Hash(password) == "$2a$10$" \o password

\* variant: the password is compared with the stored string as it is
ComparePlain(password, hash) == hash = password

\* bcrypt.compare(password, hash)
Compare(password, hash) == hash = Hash(password)

\* s.trim() over the strings the model sends
Trim(s) == IF s = " " THEN "" ELSE s

SaraBody ==
  [id |-> "a1", name |-> "Sara", phone |-> "01000000001", password |-> "pw1",
   role |-> "admin"]

AssistantBodies ==
  {[SaraBody EXCEPT !.id = i, !.role = r] : i \in AssistantIds, r \in {"admin", "assistant"}}
    \cup {[SaraBody EXCEPT !.name = Undefined]}

AssistantUpdates ==
  [id : {Undefined} \cup AssistantIds, name : {Undefined, " "}, phone : {Undefined},
   password : {Undefined, "pw2"}, role : {Undefined}]

\* variant: only the first document is looked at
ExistsFirst(coll, id) == Len(coll) > 0 /\ coll[1].id = id

\* findOne({id}) finds a document
Exists(coll, id) == FindOne(coll, id) # 0

AssistantValid(b) ==
  ~ (Falsy(b.id) \/ Falsy(b.name) \/ Falsy(b.phone) \/ Falsy(b.password) \/ Falsy(b.role))

NewAssistant(b) ==
  [id |-> b.id, name |-> b.name, phone |-> b.phone, password |-> Hash(b.password),
   role |-> b.role]

\* the gate has thrown: the catch block answers
Refuse(op, tok) ==
  /\ Reply(op, CatchStatus(requireAdmin(tok)), CatchBody(requireAdmin(tok)))
  /\ UNCHANGED assistants

GetAssistants(tok) ==
  /\ UNCHANGED front
  /\ UNCHANGED <<students, history, procs, overlapped, orphans>>
  /\ IF requireAdmin(tok) # ""
       THEN Refuse("getAssistants", tok)
     ELSE Reply("getAssistants", 200, [data |-> assistants]) /\ UNCHANGED assistants

CreateAssistant(tok, b) ==
  /\ UNCHANGED front
  /\ UNCHANGED <<students, history, procs, overlapped, orphans>>
  /\ IF requireAdmin(tok) # ""
       THEN Refuse("createAssistant", tok)
     ELSE IF ~ AssistantValid(b)
       THEN Reply("createAssistant", 400, [error |-> "All fields are required"])
            /\ UNCHANGED assistants
     ELSE IF Exists(assistants, b.id)
       THEN Reply("createAssistant", 409, [error |-> "Assistant ID already exists"])
            /\ UNCHANGED assistants
     ELSE /\ Len(assistants) < MaxAssistants
          /\ assistants' = Append(assistants, NewAssistant(b))
          /\ Reply("createAssistant", 200, [success |-> TRUE])

GetAssistant(tok, id) ==
  /\ UNCHANGED front
  /\ UNCHANGED <<students, history, procs, overlapped, orphans>>
  /\ UNCHANGED assistants
  /\ IF requireAdmin(tok) # ""
       THEN Reply("getAssistant", CatchStatus(requireAdmin(tok)), CatchBody(requireAdmin(tok)))
     ELSE IF ~ Exists(assistants, id)
       THEN Reply("getAssistant", 404, [error |-> "Assistant not found"])
     ELSE Reply("getAssistant", 200,
                [data |-> [id |-> assistants[FindOne(assistants, id)].id,
                           name |-> assistants[FindOne(assistants, id)].name,
                           phone |-> assistants[FindOne(assistants, id)].phone,
                           role |-> assistants[FindOne(assistants, id)].role]])

\* v !== undefined && v !== null && v.trim() !== ''
Kept(v) == v # Undefined /\ v # Null /\ Trim(v) # ""

\* newId && newId !== id && newId.trim() !== ''
ChangesId(id, b) == ~ Falsy(b.id) /\ b.id # id /\ Trim(b.id) # ""

\* the update object, Undefined standing for a key that is not set
AssistantUpdate(id, b) ==
  [f \in {"id", "name", "phone", "password", "role"} |->
     IF f = "id" THEN (IF ChangesId(id, b) THEN b.id ELSE Undefined)
     ELSE IF ~ Kept(b[f]) THEN Undefined
     ELSE IF f = "password" THEN Hash(b.password)
     ELSE b[f]]

AssistantUpdateKeys(id, b) ==
  {f \in DOMAIN AssistantUpdate(id, b) : AssistantUpdate(id, b)[f] # Undefined}

ApplyAssistantSet(doc, id, b) ==
  [f \in DOMAIN doc |->
     IF f \in AssistantUpdateKeys(id, b) THEN AssistantUpdate(id, b)[f] ELSE doc[f]]

UpdateAssistant(tok, id, b) ==
  /\ UNCHANGED front
  /\ UNCHANGED <<students, history, procs, overlapped, orphans>>
  /\ IF requireAdmin(tok) # ""
       THEN Refuse("updateAssistant", tok)
     ELSE IF ChangesId(id, b) /\ Exists(assistants, b.id)
       THEN Reply("updateAssistant", 409, [error |-> "Assistant ID already exists"])
            /\ UNCHANGED assistants
     ELSE IF AssistantUpdateKeys(id, b) = {}
       THEN Reply("updateAssistant", 400, [error |-> "No valid fields to update"])
            /\ UNCHANGED assistants
     ELSE IF FindOne(assistants, id) = 0
       THEN Reply("updateAssistant", 404, [error |-> "Assistant not found"])
            /\ UNCHANGED assistants
     ELSE /\ assistants' = [assistants EXCEPT ![FindOne(assistants, id)] =
                              ApplyAssistantSet(@, id, b)]
          /\ Reply("updateAssistant", 200, [success |-> TRUE])

DeleteAssistant(tok, id) ==
  /\ UNCHANGED front
  /\ UNCHANGED <<students, history, procs, overlapped, orphans>>
  /\ IF requireAdmin(tok) # ""
       THEN Refuse("deleteAssistant", tok)
     ELSE IF FindOne(assistants, id) = 0
       THEN Reply("deleteAssistant", 404, [error |-> "Assistant not found"])
            /\ UNCHANGED assistants
     ELSE /\ assistants' = RemoveAt(assistants, FindOne(assistants, id))
          /\ Reply("deleteAssistant", 200, [success |-> TRUE])

----------------------------------------------------------------------------
(* POST /auth/login *)

ExpiresIn == "2h"

\* the time span of expiresIn in seconds
Seconds(span) == IF span = "2h" THEN 2 * 60 * 60 ELSE 0

\* jwt.sign(payload, JWT_SECRET, {expiresIn}): the payload and the validity
\* window counted from the time of issue
Sign(payload, span) == [payload |-> payload, validSeconds |-> Seconds(span)]

LoginBodies == [assistant_id : {"", "a1", "a2"}, password : {"", "pw1", "pw2"}]

Login(b) ==
  /\ UNCHANGED front
  /\ UNCHANGED <<students, history, assistants, procs, overlapped, orphans>>
  /\ IF Falsy(b.assistant_id) \/ Falsy(b.password)
       THEN Reply("login", 400, [error |-> "assistant_id and password required"])
     ELSE IF FindOne(assistants, b.assistant_id) = 0
       THEN Reply("login", 401, [error |-> "user_not_found"])
     ELSE IF ~ Compare(b.password, assistants[FindOne(assistants, b.assistant_id)].password)
       THEN Reply("login", 401, [error |-> "wrong_password"])
     ELSE Reply("login", 200,
                [token |-> Sign([assistant_id |-> assistants[FindOne(assistants, b.assistant_id)].id,
                                 name |-> assistants[FindOne(assistants, b.assistant_id)].name,
                                 role |-> assistants[FindOne(assistants, b.assistant_id)].role],
                                ExpiresIn)])

----------------------------------------------------------------------------
(* Concurrent requests: each handler advances from one await to the next *)

Idle == [pc |-> "idle"]

InFlight(p) == procs[p].pc # "idle"

BothInFlight == \E p, q \in 1..NumProcs : p # q /\ InFlight(p) /\ InFlight(q)

Step(p, next) ==
  /\ procs' = [procs EXCEPT ![p] = next]
  /\ overlapped' = (overlapped \/ (next # Idle /\ \E q \in 1..NumProcs : q # p /\ InFlight(q)))

PendingCreates == Cardinality({p \in 1..NumProcs : procs[p].pc = "insert"})

PendingInserts ==
  Cardinality({p \in 1..NumProcs : procs[p].pc \in {"update", "history"} /\ procs[p].body.attended})

\* POST /students up to the await of the max-id query
CreateRead(p, b) ==
  /\ UNCHANGED front
  /\ procs[p].pc = "idle"
  /\ CreateValid(b)
  /\ Len(students) + PendingCreates < MaxStudents
  /\ NewId(students) <= MaxId
  /\ Step(p, [pc |-> "insert", newId |-> NewId(students), body |-> b])
  /\ UNCHANGED <<students, history, assistants, resp, orphans>>

\* POST /students from insertOne to the response
CreateInsert(p) ==
  /\ UNCHANGED front
  /\ procs[p].pc = "insert"
  /\ students' = Append(students, NewStudent(procs[p].newId, procs[p].body))
  /\ Respond("create", 200)
  /\ Step(p, Idle)
  /\ UNCHANGED <<history, assistants, orphans>>

\* POST attend up to the await of findOne and the week check
AttendFind(p, id, b) ==
  /\ UNCHANGED front
  /\ procs[p].pc = "idle"
  /\ b.attended => Len(history) + PendingInserts < MaxHistory
  /\ UNCHANGED <<students, history, assistants, orphans>>
  /\ IF FindOne(students, id) = 0
       THEN Respond("attend", 404) /\ Step(p, Idle)
     ELSE IF WeekOutOfBounds(students[FindOne(students, id)], b)
       THEN Respond("attend", 400) /\ Step(p, Idle)
     ELSE Step(p, [pc |-> "update", id |-> id, body |-> b]) /\ UNCHANGED resp

\* POST attend: the await of updateOne
AttendUpdate(p) ==
  /\ UNCHANGED front
  /\ procs[p].pc = "update"
  /\ UNCHANGED <<history, assistants, orphans>>
  /\ IF ~ PathViable(procs[p].body)
       THEN Respond("attend", 500) /\ Step(p, Idle) /\ UNCHANGED students
     ELSE IF FindOne(students, procs[p].id) = 0
       THEN Respond("attend", 404) /\ Step(p, Idle) /\ UNCHANGED students
     ELSE /\ students' = SetWeek(students, procs[p].id, procs[p].body)
          /\ Step(p, [procs[p] EXCEPT !.pc = "history"])
          /\ UNCHANGED resp

\* POST attend: the await of insertOne or deleteMany, then the response
AttendHistory(p) ==
  /\ UNCHANGED front
  /\ procs[p].pc = "history"
  /\ history' = IF procs[p].body.attended
                  THEN Append(history, HistoryRecord(procs[p].id, WeekNumber(procs[p].body)))
                  ELSE DeleteMany(history, procs[p].id, WeekNumber(procs[p].body))
  /\ orphans' = IF procs[p].body.attended
                  THEN orphans
                  ELSE orphans \ {HistoryRecord(procs[p].id, WeekNumber(procs[p].body))}
  /\ Respond("attend", 200)
  /\ Step(p, Idle)
  /\ UNCHANGED <<students, assistants>>

----------------------------------------------------------------------------
(* The scan page: dashboard/scan_page.jsx *)

\* a React state that is null or a boolean is the empty tuple or a 1-tuple
None == << >>

Some(v) == <<v>>

ScanIds == {1}

Centers == {"Giza"}

\* the options of the week selector
WeekOptions == {"week " \o PadStart(n) : n \in 1..2}

\* the token the query and mutation hooks attach to their requests
ScanToken == GoodToken

ScanInit ==
  [searchId |-> 0, rawStudent |-> None, attendanceCenter |-> "",
   selectedWeek |-> "", optimisticAttended |-> None,
   optimisticHwDone |-> None, optimisticPaidSession |-> None,
   isQRScanned |-> FALSE, request |-> None,
   qrLoaded |-> FALSE, toggledOff |-> {}]

\* the number that parseInt reads in each string "week <digits>" of a week
WeekNumbers ==
  [weekString \in {"week " \o PadStart(n) : n \in 1..NumWeeks} |->
     CHOOSE n \in 1..NumWeeks : weekString = "week " \o PadStart(n)]

\* weekString.match(/week (\d+)/) and parseInt; 0 stands for null
getWeekNumber(weekString) ==
  IF weekString \in DOMAIN WeekNumbers THEN WeekNumbers[weekString] ELSE 0

\* student.weeks[weekIndex] || null, as a tuple
getCurrentWeekData(student, weekString) ==
  IF weekString = "" \/ getWeekNumber(weekString) = 0
     \/ getWeekNumber(weekString) > Len(student.weeks)
    THEN None
    ELSE Some(student.weeks[getWeekNumber(weekString)])

updateStudentWithWeekData(student, weekString) ==
  LET weekData == getCurrentWeekData(student, weekString)
  IN  IF weekData = None
        THEN student
        ELSE [student EXCEPT !.attended_the_session = weekData[1].attended,
                             !.lastAttendance = weekData[1].lastAttendance,
                             !.lastAttendanceCenter = weekData[1].lastAttendanceCenter,
                             !.hwDone = weekData[1].hwDone,
                             !.paidSession = weekData[1].paidSession,
                             !.quizDegree = weekData[1].quizDegree]

\* the memoised student of the page, as a tuple
Student(s) ==
  IF s.rawStudent # None /\ s.selectedWeek # ""
    THEN Some(updateStudentWithWeekData(s.rawStudent[1], s.selectedWeek))
    ELSE s.rawStudent

\* student?.id, 0 when there is no student
StudentId(s) == IF Student(s) = None THEN 0 ELSE Student(s)[1].id

\* student?.attended_the_session, as a tuple
ServerAttended(s) ==
  IF Student(s) = None THEN None ELSE Some(Student(s)[1].attended_the_session)

\* variant: the optimistic value is not looked at
currentAttendedOfServer(s) == ServerAttended(s)

\* optimisticAttended !== null ? optimisticAttended : student.attended_the_session
currentAttended(s) ==
  IF s.optimisticAttended # None THEN s.optimisticAttended ELSE ServerAttended(s)

\* the attendance badge: not attended while no center or no week is selected
ShowsAttended(s) ==
  IF s.attendanceCenter = "" \/ s.selectedWeek = "" THEN FALSE
  ELSE IF s.optimisticAttended # None THEN s.optimisticAttended[1]
  ELSE Student(s)[1].attended_the_session

ShowsHwDone(s) ==
  IF s.attendanceCenter = "" \/ s.selectedWeek = "" THEN FALSE
  ELSE IF s.optimisticHwDone # None THEN s.optimisticHwDone[1]
  ELSE Student(s)[1].hwDone

ShowsPaid(s) ==
  IF s.attendanceCenter = "" \/ s.selectedWeek = "" THEN FALSE
  ELSE IF s.optimisticPaidSession # None THEN s.optimisticPaidSession[1]
  ELSE Student(s)[1].paidSession

\* the effect that clears the optimistic state, run when student?.id or
\* selectedWeek changed between two renders
ClearEffect(before, after, s) ==
  IF StudentId(after) # StudentId(before) \/ after.selectedWeek # before.selectedWeek
    THEN [s EXCEPT !.optimisticAttended = None, !.optimisticHwDone = None,
                   !.optimisticPaidSession = None]
    ELSE s

\* the effect that resets homework and payment, run when optimisticAttended
\* or student?.attended_the_session changed between two renders
ResetEffect(before, after, s) ==
  IF /\ \/ after.optimisticAttended # before.optimisticAttended
        \/ ServerAttended(after) # ServerAttended(before)
     /\ currentAttended(after) = Some(FALSE)
    THEN [s EXCEPT !.optimisticHwDone = Some(FALSE),
                   !.optimisticPaidSession = Some(FALSE)]
    ELSE s

\* one render: the effects see the state of the render and their updates are
\* applied together, the later ones over the earlier ones
Render(before, after) == ResetEffect(before, after, ClearEffect(before, after, after))

\* the renders that follow an update until no effect runs any more
Settle(before, after) ==
  CHOOSE s3 \in {Render(s[1], s[2]) :
                  s \in {<<s1, Render(after, s1)>> : s1 \in {Render(before, after)}}} :
    TRUE

\* the query key changes with searchId, and the data of a new key is undefined
Load(s, id) == [s EXCEPT !.searchId = id,
                         !.rawStudent = IF id = s.searchId THEN @ ELSE None]

\* the un-attend request of another assistant
Unattend(week) ==
  [attended |-> FALSE, lastAttendance |-> Null, lastAttendanceCenter |-> Null,
   attendanceWeek |-> <<week>>]

\* the date and the center as autoAttendStudent and toggleAttendance write them
Stamp(center) == "01/01/2025" \o " in " \o center

AttendanceData(s, attended) ==
  IF attended
    THEN [attended |-> TRUE, lastAttendance |-> Stamp(s.attendanceCenter),
          lastAttendanceCenter |-> s.attendanceCenter,
          attendanceWeek |-> <<getWeekNumber(s.selectedWeek)>>]
    ELSE [attended |-> FALSE, lastAttendance |-> Null,
          lastAttendanceCenter |-> Null,
          attendanceWeek |-> <<getWeekNumber(s.selectedWeek)>>]

\* mutate() of one of the four mutation hooks: the request leaves the page
Mutation(kind, s, data, auto) ==
  Some([kind |-> kind, id |-> StudentId(s), week |-> getWeekNumber(s.selectedWeek),
        data |-> data, auto |-> auto])

\* at most one request of the page is in flight, and an attend request is
\* sent only while the history collection has room for its record
ScanIdle(attends) == scan.request = None /\ (attends => Len(history) < MaxHistory)

handleManualSubmit(id) ==
  /\ scan' = Settle(scan, [Load(scan, id) EXCEPT !.isQRScanned = FALSE,
                                                 !.qrLoaded = FALSE,
                                                 !.toggledOff = {}])
  /\ UNCHANGED <<back, shell, info>>

handleStudentSelect(id) ==
  /\ FindOne(students, id) # 0
  /\ scan' = Settle(scan, [Load(scan, id) EXCEPT !.isQRScanned = FALSE,
                                                 !.qrLoaded = FALSE,
                                                 !.toggledOff = {}])
  /\ UNCHANGED <<back, shell, info>>

\* onChange of the manual input
InputChange ==
  /\ scan' = Settle(scan, [Load(scan, 0) EXCEPT !.isQRScanned = FALSE,
                                                !.qrLoaded = FALSE,
                                                !.toggledOff = {}])
  /\ UNCHANGED <<back, shell, info>>

handleQRCodeScanned(scannedStudentId) ==
  /\ scan' = Settle(scan,
       [Load(scan, scannedStudentId) EXCEPT
          !.isQRScanned = (scan.attendanceCenter # "" /\ scan.selectedWeek # ""),
          !.qrLoaded = (scan.attendanceCenter # "" /\ scan.selectedWeek # ""),
          !.toggledOff = {}])
  /\ UNCHANGED <<back, shell, info>>

onCenterChange(center) ==
  /\ scan' = Settle(scan, [scan EXCEPT !.attendanceCenter = center])
  /\ UNCHANGED <<back, shell, info>>

onWeekChange(week) ==
  /\ scan' = Settle(scan, [scan EXCEPT !.selectedWeek = week])
  /\ UNCHANGED <<back, shell, info>>

\* the auto-attend effect, its 800 ms timer and autoAttendStudent
AutoAttend ==
  /\ ScanIdle(TRUE)
  /\ Student(scan) # None
  /\ scan.attendanceCenter # "" /\ scan.selectedWeek # ""
  /\ ~ Student(scan)[1].attended_the_session
  /\ scan.optimisticAttended = None
  /\ scan.isQRScanned
  /\ scan' = Settle(scan,
       [scan EXCEPT !.optimisticAttended = Some(TRUE),
                    !.request = Mutation("attend", scan, AttendanceData(scan, TRUE), TRUE)])
  /\ UNCHANGED <<back, shell, info>>

toggleAttendance ==
  /\ Student(scan) # None /\ scan.selectedWeek # "" /\ scan.attendanceCenter # ""
  /\ LET newAttended == ~ currentAttended(scan)[1]
         pair == <<StudentId(scan), getWeekNumber(scan.selectedWeek)>>
     IN  /\ ScanIdle(newAttended)
         /\ scan' = Settle(scan,
              [scan EXCEPT !.optimisticAttended = Some(newAttended),
                           !.request = Mutation("attend", scan,
                                                AttendanceData(scan, newAttended), FALSE),
                           !.toggledOff = IF newAttended THEN @ \ {pair}
                                                         ELSE @ \cup {pair}])
  /\ UNCHANGED <<back, shell, info>>

toggleHwDone ==
  /\ ScanIdle(FALSE)
  /\ Student(scan) # None /\ scan.selectedWeek # "" /\ scan.attendanceCenter # ""
  /\ currentAttended(scan) = Some(TRUE)
  /\ LET newHwDone == IF scan.optimisticHwDone # None
                        THEN ~ scan.optimisticHwDone[1]
                        ELSE ~ Student(scan)[1].hwDone
     IN  scan' = Settle(scan,
           [scan EXCEPT !.optimisticHwDone = Some(newHwDone),
                        !.request = Mutation("homework", scan, newHwDone, FALSE)])
  /\ UNCHANGED <<back, shell, info>>

togglePaidSession ==
  /\ ScanIdle(FALSE)
  /\ Student(scan) # None /\ scan.selectedWeek # "" /\ scan.attendanceCenter # ""
  /\ currentAttended(scan) = Some(TRUE)
  /\ LET newPaidSession == IF scan.optimisticPaidSession # None
                             THEN ~ scan.optimisticPaidSession[1]
                             ELSE ~ Student(scan)[1].paidSession
     IN  scan' = Settle(scan,
           [scan EXCEPT !.optimisticPaidSession = Some(newPaidSession),
                        !.request = Mutation("payment", scan, newPaidSession, FALSE)])
  /\ UNCHANGED <<back, shell, info>>

\* the two inputs are typed and the form is submitted
handleQuizDegreeSubmit(quizDegreeInput, quizDegreeOutOf) ==
  /\ ScanIdle(FALSE)
  /\ Student(scan) # None /\ scan.selectedWeek # "" /\ scan.attendanceCenter # ""
  /\ quizDegreeInput # "" /\ quizDegreeOutOf # ""
  /\ currentAttended(scan) = Some(TRUE)
  /\ scan' = Settle(scan,
       [scan EXCEPT !.request = Mutation("quiz", scan,
                       quizDegreeInput \o " / " \o quizDegreeOutOf, FALSE)])
  /\ UNCHANGED <<back, shell, info>>

\* the server handles the request in flight; the page keeps its state
Serve ==
  /\ scan.request # None
  /\ LET r == scan.request[1]
     IN  IF r.kind = "attend" THEN AttendCall(ScanToken, r.id, r.data)
         ELSE IF r.kind = "homework"
           THEN UpdateFieldCall("homework", "hwDone", ScanToken, r.id, r.week, r.data)
         ELSE IF r.kind = "payment"
           THEN UpdateFieldCall("payment", "paidSession", ScanToken, r.id, r.week, r.data)
         ELSE UpdateFieldCall("quiz", "quizDegree", ScanToken, r.id, r.week, r.data)
  /\ scan' = [scan EXCEPT !.request = None]
  /\ UNCHANGED <<shell, info>>

\* one fetch of useStudent(searchId), every two seconds while searchId is set;
\* after a failed fetch the hook hands out the last data or none
Poll ==
  /\ scan.searchId # 0
  /\ GetStudentCall(ScanToken, scan.searchId)
  /\ \E kept \in BOOLEAN :
       scan' = Settle(scan,
         [scan EXCEPT !.rawStudent =
            IF resp'.status = 200 THEN Some(resp'.body.data)
            ELSE IF kept THEN @ ELSE None])
  /\ UNCHANGED <<shell, info>>

----------------------------------------------------------------------------
(* The application shell: _app.js *)

publicPages == {"/", "/404", "/contact_developer"}

adminPages ==
  {"/manage_assistants", "/manage_assistants/add_assistant",
   "/manage_assistants/edit_assistant", "/manage_assistants/delete_assistant",
   "/manage_assistants/all_assistants"}

\* the login page, a protected page and an admin-only page
Paths == {"/", "/dashboard", "/manage_assistants"}

\* the timers and requests that can be pending when the user follows a link
MaxPending == 1

\* GET /api/auth/me answers 200 with the role of a token that verifies; axios
\* throws on every other answer
MeAnswers(tok) == Verifies(tok)

\* the first render of the shell at a path, with a token in session storage
FirstRender(pathname, token) ==
  [pathname |-> pathname, token |-> token, isAuthenticated |-> FALSE,
   isLoading |-> TRUE, showAccessDenied |-> FALSE, isRouteChanging |-> FALSE,
   showRedirectToLogin |-> FALSE, route |-> "", auth |-> {}, admin |-> {},
   timers |-> << >>]

ShellInit == FirstRender("/", NoToken)

\* setTimeout(..., 1000): the timers have one delay, so they fire in the
\* order in which they were set
Timer(timers, kind) == Append(timers, kind)

\* checkAuth up to its await: without a token it ends at once
checkAuth(now, s) ==
  IF now.token = NoToken
    THEN [s EXCEPT !.isAuthenticated = FALSE, !.isLoading = FALSE]
    ELSE [s EXCEPT !.auth = @ \cup {[token |-> now.token, pathname |-> now.pathname]}]

\* the effect on [router.pathname]
AuthEffect(first, before, now, s) ==
  IF first \/ now.pathname # before.pathname THEN checkAuth(now, s) ELSE s

\* the effect on [isLoading, isAuthenticated, router.pathname]
RedirectEffect(first, before, now, s) ==
  IF /\ \/ first
        \/ now.isLoading # before.isLoading
        \/ now.isAuthenticated # before.isAuthenticated
        \/ now.pathname # before.pathname
     /\ ~ now.isLoading /\ ~ now.isAuthenticated /\ now.pathname \notin publicPages
    THEN [s EXCEPT !.showRedirectToLogin = TRUE, !.timers = Timer(@, "login")]
    ELSE s

\* the effect on [router.pathname, isAuthenticated]: checkAdminAccess up to
\* its await
AdminEffect(first, before, now, s) ==
  IF /\ \/ first
        \/ now.pathname # before.pathname
        \/ now.isAuthenticated # before.isAuthenticated
     /\ now.isAuthenticated /\ now.pathname \in adminPages
    THEN [s EXCEPT !.admin = @ \cup {now.token}]
    ELSE s

\* the effect on [isAuthenticated] that resets the access-denied state
DeniedResetEffect(first, before, now, s) ==
  IF (first \/ now.isAuthenticated # before.isAuthenticated) /\ now.isAuthenticated
    THEN [s EXCEPT !.showAccessDenied = FALSE]
    ELSE s

\* an expired token is removed; one that does not decode is left alone
checkTokenExpiry(s) ==
  IF s.token = ExpiredToken
    THEN [s EXCEPT !.token = NoToken, !.isAuthenticated = FALSE]
    ELSE s

\* the effect on [isAuthenticated]: the first call of checkTokenExpiry
ExpiryEffect(first, before, now, s) ==
  IF (first \/ now.isAuthenticated # before.isAuthenticated) /\ now.isAuthenticated
    THEN checkTokenExpiry(s)
    ELSE s

\* the effects of one render, in the order of the file
ShellRender(first, before, now) ==
  ExpiryEffect(first, before, now,
    DeniedResetEffect(first, before, now,
      AdminEffect(first, before, now,
        RedirectEffect(first, before, now,
          AuthEffect(first, before, now, now)))))

\* the renders that follow an update until no effect runs any more
ShellSettle(first, before, now) ==
  CHOOSE s3 \in {ShellRender(FALSE, s[1], s[2]) :
                  s \in {<<s1, ShellRender(FALSE, now, s1)>> :
                          s1 \in {ShellRender(first, before, now)}}} :
    TRUE

\* the shell once the page is loaded at a path
Mounted(pathname, token) ==
  ShellSettle(TRUE, FirstRender(pathname, token), FirstRender(pathname, token))

\* what the shell returns
Renders(s) ==
  IF s.isLoading \/ s.isRouteChanging THEN "Preloader"
  ELSE IF s.showRedirectToLogin THEN "RedirectToLoginPreloader"
  ELSE IF s.showAccessDenied THEN "AccessDeniedPreloader"
  ELSE IF ~ s.isAuthenticated /\ s.pathname \notin publicPages THEN "Preloader"
  ELSE "Component"

\* router.push(path): routeChangeStart
push(s, path) == [s EXCEPT !.isRouteChanging = TRUE, !.route = path]

\* the user follows a link of the page that is shown
Navigate(path) ==
  /\ Renders(shell) = "Component"
  /\ Len(shell.timers) + Cardinality(shell.auth) + Cardinality(shell.admin) < MaxPending
  /\ shell' = push(shell, path)
  /\ UNCHANGED <<back, scan, info>>

\* routeChangeComplete: the page of the new path is there
RouteComplete ==
  /\ shell.route # ""
  /\ shell' = ShellSettle(FALSE, shell,
       [shell EXCEPT !.pathname = shell.route, !.route = "",
                     !.isRouteChanging = FALSE])
  /\ UNCHANGED <<back, scan, info>>

\* checkAuth after its await
AuthAnswer(r) ==
  /\ r \in shell.auth
  /\ shell' = ShellSettle(FALSE, shell,
       IF MeAnswers(r.token)
         THEN IF r.pathname \in adminPages /\ Role(r.token) # "admin"
                THEN [shell EXCEPT !.auth = @ \ {r}, !.isAuthenticated = TRUE,
                                   !.showAccessDenied = TRUE,
                                   !.timers = Timer(@, "denied"), !.isLoading = FALSE]
                ELSE [shell EXCEPT !.auth = @ \ {r}, !.isAuthenticated = TRUE,
                                   !.isLoading = FALSE]
         ELSE [shell EXCEPT !.auth = @ \ {r}, !.token = NoToken,
                            !.isAuthenticated = FALSE, !.isLoading = FALSE])
  /\ UNCHANGED <<back, scan, info>>

\* checkAdminAccess after its await
AdminAnswer(tok) ==
  /\ tok \in shell.admin
  /\ shell' = ShellSettle(FALSE, shell,
       IF MeAnswers(tok)
         THEN IF Role(tok) # "admin"
                THEN [shell EXCEPT !.admin = @ \ {tok}, !.showAccessDenied = TRUE,
                                   !.timers = Timer(@, "denied")]
                ELSE [shell EXCEPT !.admin = @ \ {tok}]
         ELSE [shell EXCEPT !.admin = @ \ {tok}, !.token = NoToken,
                            !.isAuthenticated = FALSE])
  /\ UNCHANGED <<back, scan, info>>

\* the timer set with the access-denied preloader fires
DeniedTimer ==
  /\ shell.timers # << >> /\ Head(shell.timers) = "denied"
  /\ shell' = ShellSettle(FALSE, shell,
       push([shell EXCEPT !.timers = Tail(@), !.showAccessDenied = FALSE],
            "/dashboard"))
  /\ UNCHANGED <<back, scan, info>>

\* the timer set with the redirect-to-login preloader fires
LoginTimer ==
  /\ shell.timers # << >> /\ Head(shell.timers) = "login"
  /\ shell' = ShellSettle(FALSE, shell,
       push([shell EXCEPT !.timers = Tail(@), !.showRedirectToLogin = FALSE],
            "/"))
  /\ UNCHANGED <<back, scan, info>>

\* setInterval(checkTokenExpiry, 30000) while isAuthenticated
ExpiryCheck ==
  /\ shell.isAuthenticated
  /\ shell' = ShellSettle(FALSE, shell, checkTokenExpiry(shell))
  /\ UNCHANGED <<back, scan, info>>

\* the two hours of the token in session storage run out
Expire ==
  /\ Verifies(shell.token)
  /\ shell' = [shell EXCEPT !.token = ExpiredToken]
  /\ UNCHANGED <<back, scan, info>>

----------------------------------------------------------------------------
(* The session-info page *)

\* a text is the sequence of its characters; the empty one stands for '' and
\* for null, both falsy
NoText == << >>

\* String.prototype.toLowerCase on the letters the texts below are made of
toLowerCase(t) ==
  [i \in DOMAIN t |-> IF t[i] = "A" THEN "a" ELSE IF t[i] = "G" THEN "g" ELSE t[i]]

\* .replace(/\./g, '')
RemoveDots(t) ==
  LET NotDot(c) == c # "." IN SelectSeq(t, NotDot)

\* String.prototype.includes
includes(t, part) ==
  \E i \in 0..(Len(t) - Len(part)) : SubSeq(t, i + 1, i + Len(part)) = part

MaxInfoStudents == 2

\* one week of attendance: not attended, attended in either center
InfoWeekData ==
  {[week |-> 1, attended |-> FALSE, lastAttendanceCenter |-> NoText],
   [week |-> 1, attended |-> TRUE, lastAttendanceCenter |-> <<"G">>],
   [week |-> 1, attended |-> TRUE, lastAttendanceCenter |-> <<"h">>]}

\* the students the list request can return: grade and main center as typed
\* when the student was created; students of one grade in every combination,
\* one student of another grade and one who lost the main center in an update
InfoRecords ==
  [grade : {<<"A", ".">>}, main_center : {<<"g">>, <<"h">>},
   weeks : {<<w>> : w \in InfoWeekData}]
  \cup {[grade |-> <<"b">>, main_center |-> <<"g">>,
         weeks |-> <<[week |-> 1, attended |-> TRUE, lastAttendanceCenter |-> <<"G">>]>>],
        [grade |-> <<"A", ".">>, main_center |-> NoText,
         weeks |-> <<[week |-> 1, attended |-> TRUE, lastAttendanceCenter |-> <<"G">>]>>]}

\* the options of the three selectors, '' when cleared
GradeOptions == {<<"a">>, <<"b">>}
CenterOptions == {<<"G">>}
InfoWeekOptions == {"week 01", "week 02"}

\* useState('') three times, filtered null, and no data yet
InfoInit ==
  [students |-> << >>, selectedCenter |-> NoText, selectedGrade |-> NoText,
   selectedWeek |-> "", filtered |-> None]

\* handleFilter, run by the effect on students and the three selections
handleFilter(s) ==
  LET Keeps(st) == st.grade # NoText
                   /\ includes(toLowerCase(st.grade), toLowerCase(s.selectedGrade))
  IN [s EXCEPT !.filtered =
        Some(IF s.selectedGrade # NoText THEN SelectSeq(s.students, Keeps)
                                         ELSE s.students)]

\* what one render computes from: filtered !== null ? filtered : students,
\* the selections and getWeekNumber(selectedWeek)
Rendering(s, filtered) ==
  [dataToCount |-> IF filtered # None THEN filtered[1] ELSE s.students,
   selectedGrade |-> s.selectedGrade, selectedCenter |-> s.selectedCenter,
   weekNumber |-> getWeekNumber(s.selectedWeek)]

didStudentAttendInWeek(student, weekNumber) ==
  /\ weekNumber # 0
  /\ weekNumber <= Len(student.weeks)
  /\ student.weeks[weekNumber].attended

didStudentAttendInCenterInWeek(student, center, weekNumber) ==
  /\ weekNumber # 0 /\ center # NoText
  /\ weekNumber <= Len(student.weeks)
  /\ student.weeks[weekNumber].attended
  /\ student.weeks[weekNumber].lastAttendanceCenter # NoText
  /\ toLowerCase(student.weeks[weekNumber].lastAttendanceCenter) = toLowerCase(center)

gradeMatch(s, r) ==
  /\ s.grade # NoText
  /\ RemoveDots(toLowerCase(s.grade)) = RemoveDots(toLowerCase(r.selectedGrade))

\* the two branches on weekNumber that MC, NMC and the table share
AttendedInCenter(s, r) ==
  IF r.weekNumber # 0
    THEN didStudentAttendInCenterInWeek(s, r.selectedCenter, r.weekNumber)
    ELSE \E i \in DOMAIN s.weeks :
           /\ s.weeks[i].attended
           /\ s.weeks[i].lastAttendanceCenter # NoText
           /\ toLowerCase(s.weeks[i].lastAttendanceCenter) = toLowerCase(r.selectedCenter)

\* the positions of dataToCount that a filter keeps
Filter(r, Test(_)) == {i \in DOMAIN r.dataToCount : Test(r.dataToCount[i])}

MC_students(r) ==
  LET Test(s) ==
        /\ r.selectedGrade # NoText /\ r.selectedCenter # NoText
        /\ gradeMatch(s, r)
        /\ s.main_center # NoText
        /\ toLowerCase(s.main_center) = toLowerCase(r.selectedCenter)
        /\ AttendedInCenter(s, r)
  IN Filter(r, Test)

MC(r) == Cardinality(MC_students(r))

NAMC_students(r) ==
  LET Test(s) ==
        /\ r.selectedGrade # NoText /\ r.selectedCenter # NoText
        /\ gradeMatch(s, r)
        /\ s.main_center # NoText
        /\ toLowerCase(s.main_center) = toLowerCase(r.selectedCenter)
        /\ IF r.weekNumber # 0
             THEN ~didStudentAttendInWeek(s, r.weekNumber)
             ELSE ~\E i \in DOMAIN s.weeks : s.weeks[i].attended
  IN Filter(r, Test)

NAMC(r) == Cardinality(NAMC_students(r))

mainCenterTotal(r) ==
  LET Test(s) ==
        /\ s.main_center # NoText
        /\ toLowerCase(s.main_center) = toLowerCase(r.selectedCenter)
        /\ gradeMatch(s, r)
  IN Cardinality(Filter(r, Test))

\* a variant that leaves the main center out of the test
NMC_studentsOfAnyCenter(r) ==
  LET Test(s) ==
        /\ r.selectedGrade # NoText /\ r.selectedCenter # NoText
        /\ gradeMatch(s, r)
        /\ s.main_center # NoText
        /\ AttendedInCenter(s, r)
  IN Filter(r, Test)

NMC_students(r) ==
  LET Test(s) ==
        /\ r.selectedGrade # NoText /\ r.selectedCenter # NoText
        /\ gradeMatch(s, r)
        /\ s.main_center # NoText
        /\ toLowerCase(s.main_center) # toLowerCase(r.selectedCenter)
        /\ AttendedInCenter(s, r)
  IN Filter(r, Test)

NMC(r) == Cardinality(NMC_students(r))

totalAttended(r) == MC(r) + NMC(r)

\* the rows of the attended table
filteredStudents(r) ==
  LET Test(s) ==
        /\ r.selectedGrade # NoText /\ r.selectedCenter # NoText
        /\ gradeMatch(s, r)
        /\ AttendedInCenter(s, r)
  IN Filter(r, Test)

\* a handler's state update, then the effect that runs handleFilter
InfoSettle(s) == handleFilter(s)

\* what the list request can answer after it answered old: one student more,
\* one less or one student changed
ListAnswers(old) ==
  {Append(old, r) : r \in InfoRecords}
    \cup {SubSeq(old, 1, Len(old) - 1) : i \in DOMAIN old}
    \cup {[old EXCEPT ![i] = r] : i \in DOMAIN old, r \in InfoRecords}

\* the list request answers, at mount and on every poll
Refetch(list) ==
  /\ Len(list) <= MaxInfoStudents
  /\ list # info.students
  /\ info' = InfoSettle([info EXCEPT !.students = list])
  /\ UNCHANGED <<back, scan, shell>>

onInfoCenterChange(center) ==
  /\ center # info.selectedCenter
  /\ info' = InfoSettle([info EXCEPT !.selectedCenter = center])
  /\ UNCHANGED <<back, scan, shell>>

onGradeChange(grade) ==
  /\ grade # info.selectedGrade
  /\ info' = InfoSettle([info EXCEPT !.selectedGrade = grade])
  /\ UNCHANGED <<back, scan, shell>>

onInfoWeekChange(week) ==
  /\ week # info.selectedWeek
  /\ info' = InfoSettle([info EXCEPT !.selectedWeek = week])
  /\ UNCHANGED <<back, scan, shell>>

----------------------------------------------------------------------------
(* Specifications *)

Init ==
  /\ students = << >>
  /\ history = << >>
  /\ assistants = << >>
  /\ resp = [op |-> "none", status |-> 0]
  /\ procs = [p \in 1..NumProcs |-> Idle]
  /\ overlapped = FALSE
  /\ orphans = {}
  /\ scan = ScanInit
  /\ shell = ShellInit
  /\ info = InfoInit

\* attendance of week 1 of every student, one request at a time
Next ==
  \/ \E b \in CreateBodies : Create(GoodToken, b)
  \/ \E id \in Ids : Delete(GoodToken, id)
  \/ \E id \in Ids : Reset(GoodToken, id)
  \/ \E id \in Ids, b \in Stamped(1) : Attend(GoodToken, id, b)

Spec == Init /\ [][Next]_vars

\* the weeks of student 1 and their fields, one request at a time
NextFields ==
  \/ Create(GoodToken, AliBody)
  \/ \E id \in {1, MaxId} : Reset(GoodToken, id)
  \/ \E id \in {1, MaxId}, b \in AttendBodies : Attend(GoodToken, id, b)
  \/ \E id \in {1, MaxId}, w \in FieldWeeks, v \in BOOLEAN : UpdateHomework(GoodToken, id, w, v)
  \/ \E id \in {1, MaxId}, w \in FieldWeeks, v \in BOOLEAN : UpdatePayment(GoodToken, id, w, v)
  \/ \E id \in {1, MaxId}, w \in FieldWeeks : UpdateQuizGrade(GoodToken, id, w, "8 / 10")

SpecFields == Init /\ [][NextFields]_vars

\* the scan page in front of the student service: loading a student, the
\* selectors, the attendance toggle and the automatic attend
NextScan ==
  \/ Len(students) = 0 /\ Create(GoodToken, AliBody)
  \/ \E id \in ScanIds : handleManualSubmit(id)
  \/ \E id \in ScanIds : handleStudentSelect(id)
  \/ InputChange
  \/ \E id \in ScanIds : handleQRCodeScanned(id)
  \/ \E center \in Centers \cup {""} : onCenterChange(center)
  \/ \E week \in WeekOptions \cup {""} : onWeekChange(week)
  \/ toggleAttendance
  \/ AutoAttend
  \/ Serve
  \/ Poll

SpecScan == Init /\ [][NextScan]_vars

\* the week options of the weeks whose fields are updated
FieldWeekOptions == {"week " \o PadStart(w) : w \in FieldWeeks}

\* the scan page of a student found by id: the attendance, homework and
\* payment toggles and the quiz grade of one week
NextScanFields ==
  \/ Len(students) = 0 /\ Create(GoodToken, AliBody)
  \/ \E id \in ScanIds : handleManualSubmit(id)
  \/ \E center \in Centers : onCenterChange(center)
  \/ \E week \in FieldWeekOptions \cup {""} : onWeekChange(week)
  \/ toggleAttendance
  \/ toggleHwDone
  \/ togglePaidSession
  \/ handleQuizDegreeSubmit("8", "10")
  \/ Serve
  \/ Poll

SpecScanFields == Init /\ [][NextScanFields]_vars

\* what the user of the scan page does on a student whose QR code is scanned
ScanUser ==
  \/ \E id \in ScanIds : handleQRCodeScanned(id)
  \/ \E center \in Centers : onCenterChange(center)
  \/ \E week \in FieldWeekOptions : onWeekChange(week)
  \/ toggleAttendance
  \/ toggleHwDone
  \/ togglePaidSession

\* what the other assistants do: a student is created, deleted, un-attended
ScanOthers ==
  \/ Len(students) = 0 /\ Create(GoodToken, AliBody)
  \/ \E id \in ScanIds : Delete(GoodToken, id)
  \/ \E id \in ScanIds, w \in FieldWeeks : Attend(GoodToken, id, Unattend(w))

\* what goes on without anybody acting: the timer of the automatic attend
\* fires, the server handles the request in flight, the student is fetched
ScanQuiet ==
  \/ AutoAttend
  \/ Serve
  \/ Poll

NextScanPolling ==
  \/ ScanUser
  \/ ScanOthers
  \/ ScanQuiet

\* the 800 ms timer fires, the server answers every request, and the query
\* refetches every two seconds, in the background too
SpecScanPolling ==
  /\ Init /\ [][NextScanPolling]_vars
  /\ WF_vars(AutoAttend) /\ WF_vars(Serve) /\ WF_vars(Poll)

\* the page is opened at a path with whatever token the session storage holds
InitShell ==
  /\ students = << >> /\ history = << >> /\ assistants = << >>
  /\ resp = [op |-> "none", status |-> 0]
  /\ procs = [p \in 1..NumProcs |-> Idle]
  /\ overlapped = FALSE /\ orphans = {}
  /\ scan = ScanInit /\ info = InfoInit
  /\ shell \in {Mounted(pathname, token) : pathname \in Paths, token \in Tokens}

NextShell ==
  \/ \E path \in Paths : Navigate(path)
  \/ Expire
  \/ RouteComplete
  \/ \E r \in [token : Tokens, pathname : Paths] : AuthAnswer(r)
  \/ \E tok \in Tokens : AdminAnswer(tok)
  \/ DeniedTimer
  \/ LoginTimer
  \/ ExpiryCheck

\* route changes complete, /api/auth/me answers, the timers fire and the
\* interval runs checkTokenExpiry
SpecShell ==
  /\ InitShell /\ [][NextShell]_vars
  /\ WF_vars(RouteComplete)
  /\ WF_vars(\E r \in [token : Tokens, pathname : Paths] : AuthAnswer(r))
  /\ WF_vars(\E tok \in Tokens : AdminAnswer(tok))
  /\ WF_vars(DeniedTimer) /\ WF_vars(LoginTimer) /\ WF_vars(ExpiryCheck)

\* the session-info page, mounted with remembered selections or none, and
\* its list request
InitInfo ==
  /\ students = << >> /\ history = << >> /\ assistants = << >>
  /\ resp = [op |-> "none", status |-> 0]
  /\ procs = [p \in 1..NumProcs |-> Idle]
  /\ overlapped = FALSE /\ orphans = {}
  /\ scan = ScanInit /\ shell = ShellInit
  /\ info \in {InfoSettle([InfoInit EXCEPT !.selectedCenter = center,
                                           !.selectedGrade = grade,
                                           !.selectedWeek = week]) :
                 center \in CenterOptions \cup {NoText},
                 grade \in GradeOptions \cup {NoText},
                 week \in InfoWeekOptions \cup {""}}

NextInfo ==
  \/ \E list \in ListAnswers(info.students) : Refetch(list)
  \/ \E center \in CenterOptions \cup {NoText} : onInfoCenterChange(center)
  \/ \E grade \in GradeOptions \cup {NoText} : onGradeChange(grade)
  \/ \E week \in InfoWeekOptions \cup {""} : onInfoWeekChange(week)

SpecInfo == InitInfo /\ [][NextInfo]_vars

\* the profile of student 1, one request at a time
NextProfile ==
  \/ \E b \in CreateBodies : Create(GoodToken, b)
  \/ \E id \in {1, MaxId}, b \in UpdateBodies : Update(GoodToken, id, b)

SpecProfile == Init /\ [][NextProfile]_vars

WeeksUpdateBodies == {NoFields, [NoFields EXCEPT !.name = "Omar"]}

\* the week records of student 1 under create, update, reset and attend
NextWeeks ==
  \/ Create(GoodToken, AliBody)
  \/ \E id \in {1, MaxId}, b \in WeeksUpdateBodies : Update(GoodToken, id, b)
  \/ \E id \in {1, MaxId} : Reset(GoodToken, id)
  \/ \E id \in {1, MaxId}, b \in AttendBodies : Attend(GoodToken, id, b)

SpecWeeks == Init /\ [][NextWeeks]_vars

RaceBodies == {b \in Stamped(1) : b.attendanceWeek = <<1>>}

\* the assistants collection and the login, with the token of an admin
NextAssistants ==
  \/ GetAssistants(AdminToken)
  \/ \E b \in AssistantBodies : CreateAssistant(AdminToken, b)
  \/ \E id \in AssistantIds : GetAssistant(AdminToken, id)
  \/ \E id \in AssistantIds, b \in AssistantUpdates : UpdateAssistant(AdminToken, id, b)
  \/ \E id \in AssistantIds : DeleteAssistant(AdminToken, id)
  \/ \E b \in LoginBodies : Login(b)

SpecAssistants == Init /\ [][NextAssistants]_vars

AuthUpdate == [NoFields EXCEPT !.name = "Omar"]

AuthAssistantUpdate ==
  [id |-> Undefined, name |-> Undefined, phone |-> Undefined, password |-> "pw2",
   role |-> Undefined]

\* a request to a handler behind authMiddleware, on student 1
StudentRequest(tok) ==
  \/ Create(tok, AliBody)
  \/ GetStudents(tok)
  \/ GetStudent(tok, 1)
  \/ Update(tok, 1, AuthUpdate)
  \/ Delete(tok, 1)
  \/ Reset(tok, 1)
  \/ \E b \in RaceBodies : Attend(tok, 1, b)
  \/ GetHistory(tok)

\* a request to a handler behind requireAdmin, on assistant "a1"
AdminRequest(tok) ==
  \/ GetAssistants(tok)
  \/ CreateAssistant(tok, SaraBody)
  \/ GetAssistant(tok, "a1")
  \/ UpdateAssistant(tok, "a1", AuthAssistantUpdate)
  \/ DeleteAssistant(tok, "a1")

\* every token-gated handler under every kind of token
NextAuth ==
  \/ \E tok \in Tokens : StudentRequest(tok)
  \/ \E tok \in Tokens : AdminRequest(tok)

SpecAuth == Init /\ [][NextAuth]_vars

\* create requests and attend requests for week 1 of student 1, sent by
\* NumProcs clients and interleaved at their awaits
NextRace ==
  \/ \E p \in 1..NumProcs : CreateRead(p, AliBody)
  \/ \E p \in 1..NumProcs : CreateInsert(p)
  \/ \E p \in 1..NumProcs, b \in RaceBodies : AttendFind(p, 1, b)
  \/ \E p \in 1..NumProcs : AttendUpdate(p)
  \/ \E p \in 1..NumProcs : AttendHistory(p)

SpecRace == Init /\ [][NextRace]_vars

----------------------------------------------------------------------------
(* Properties *)

Count(h, r) == Cardinality({k \in 1..Len(h) : h[k] = r})

Others(h, r) == SelectSeq(h, LAMBDA x : x # r)

AttendedAt(id, w) == students[FindOne(students, id)].weeks[w].attended

HasStudent(coll, id) == \E s \in 1..Len(coll) : coll[s].id = id

Answered(op, status) == resp.op = op /\ resp.status = status

\* C1: in every reachable state, a week that is not attended has hwDone =
\* FALSE, paidSession = FALSE and quizDegree = null.
C1_UnattendedWeekIsUnset ==
  \A i \in 1..Len(students) : \A w \in 1..Len(students[i].weeks) :
    ~ students[i].weeks[w].attended =>
      /\ students[i].weeks[w].hwDone = FALSE
      /\ students[i].weeks[w].paidSession = FALSE
      /\ students[i].weeks[w].quizDegree = Null

\* C2 (as stated): a successful toggle of week w from attended to not attended
\* removes exactly one record {studentId, week: w} if one is present, a toggle
\* from not attended to attended inserts exactly one, and no other record is
\* added or removed.
C2_RemovesExactlyOne ==
  [][\A id \in Ids, b \in Stamped(1) :
       (resp'.status = 200 /\ resp'.op = "attend" /\ Attend(GoodToken, id, b)) =>
         /\ Others(history', HistoryRecord(id, WeekNumber(b)))
              = Others(history, HistoryRecord(id, WeekNumber(b)))
         /\ (AttendedAt(id, WeekNumber(b)) /\ ~ b.attended) =>
              Count(history', HistoryRecord(id, WeekNumber(b)))
                = Count(history, HistoryRecord(id, WeekNumber(b)))
                    - (IF Count(history, HistoryRecord(id, WeekNumber(b))) > 0 THEN 1 ELSE 0)
         /\ (~ AttendedAt(id, WeekNumber(b)) /\ b.attended) =>
              Count(history', HistoryRecord(id, WeekNumber(b)))
                = Count(history, HistoryRecord(id, WeekNumber(b))) + 1]_vars

\* C2 (amended): a successful toggle of week w from attended to not attended
\* removes every record {studentId, week: w} that is present, a toggle from
\* not attended to attended inserts exactly one, and no other record is added
\* or removed.
C2_RemovesAllMatching ==
  [][(resp'.status = 200 /\ resp'.op = "attend") =>
     \A id \in {i \in Ids : HasStudent(students, i)}, b \in Stamped(1) :
       (b.attended = (Len(history') > Len(history)) /\ Attend(GoodToken, id, b)) =>
         /\ Others(history', HistoryRecord(id, WeekNumber(b)))
              = Others(history, HistoryRecord(id, WeekNumber(b)))
         /\ (AttendedAt(id, WeekNumber(b)) /\ ~ b.attended) =>
              Count(history', HistoryRecord(id, WeekNumber(b))) = 0
         /\ (~ AttendedAt(id, WeekNumber(b)) /\ b.attended) =>
              Count(history', HistoryRecord(id, WeekNumber(b)))
                = Count(history, HistoryRecord(id, WeekNumber(b))) + 1]_vars

\* an attend call has just succeeded, week 1 of one student is un-attended
\* and has no record, and week 1 of another is attended and has its one record
C2_Witness ==
  /\ Answered("attend", 200)
  /\ \E i, j \in 1..Len(students) :
       /\ ~ students[i].weeks[1].attended
       /\ Count(history, HistoryRecord(students[i].id, 1)) = 0
       /\ students[j].weeks[1].attended
       /\ Count(history, HistoryRecord(students[j].id, 1)) = 1

\* C3: a history read returns no row whose student is missing from the store
\* or whose student's WeekRecord of that week has attended = FALSE.
C3_HistoryReadDropsStale ==
  \A g \in 1..Len(HistoryGet(students, history)) :
    \A k \in 1..Len(HistoryGet(students, history)[g].historyRecords) :
      LET row == HistoryGet(students, history)[g].historyRecords[k] IN
        /\ \E i \in 1..Len(students) : students[i].id = row.studentId
        /\ \A i \in 1..Len(students) :
             students[i].id = row.studentId =>
               /\ row.week \in 1..Len(students[i].weeks)
               /\ students[i].weeks[row.week].attended

\* the store holds a record of a week that is no longer attended and a record
\* that the read returns, and the read returns only the latter
C3_Witness ==
  /\ \E k \in 1..Len(history) : \E i \in 1..Len(students) :
       students[i].id = history[k].studentId /\ ~ students[i].weeks[history[k].week].attended
  /\ Len(HistoryGet(students, history)) = 1
  /\ Len(HistoryGet(students, history)[1].historyRecords) = 1

\* C4: a successful Create appends one student whose id is the largest id of
\* the store plus one (1 when the store is empty) and whose weeks are the 20
\* zeroed records week = 1..20.
C4_CreateAssignsNextId ==
  [][(resp'.op = "create" /\ resp'.status = 200) =>
       /\ Len(students') = Len(students) + 1
       /\ SubSeq(students', 1, Len(students)) = students
       /\ students = << >> => students'[Len(students')].id = 1
       /\ \A i \in 1..Len(students) : students[i].id < students'[Len(students')].id
       /\ students # << >> =>
            \E i \in 1..Len(students) : students[i].id + 1 = students'[Len(students')].id
       /\ Len(students'[Len(students')].weeks) = 20
       /\ \A w \in 1..20 :
            students'[Len(students')].weeks[w] =
              [week |-> w, attended |-> FALSE, lastAttendance |-> Null,
               lastAttendanceCenter |-> Null, hwDone |-> FALSE,
               paidSession |-> FALSE, quizDegree |-> Null, message_state |-> FALSE]]_vars

\* a create has just succeeded in a store whose lowest id had been deleted
C4_Witness ==
  /\ Answered("create", 200)
  /\ Len(students) = 2
  /\ students[1].id = 2
  /\ students[2].id = 3

UniqueIds ==
  \A i, j \in 1..Len(students) : i # j => students[i].id # students[j].id

Quiescent == \A p \in 1..NumProcs : ~ InFlight(p)

\* C5: two students share an id only after requests have overlapped; while
\* the calls run one at a time no two students share an id.  (The overlap
\* that ends in a shared id is C5_Witness.)
C5_DuplicateIdOnlyByOverlap == ~ overlapped => UniqueIds

\* two creates have read the same max id and both have inserted
C5_Witness ==
  /\ Quiescent
  /\ ~ UniqueIds
  /\ Answered("create", 200)

\* C6: once no call is in flight, week 1 of student 1 and the history
\* collection disagree (attended without a record, or a record without
\* attended) only after requests have overlapped.  (The overlap of an attend
\* and an un-attend that ends in disagreement is C6_Witness.)
C6_DisagreeOnlyByOverlap ==
  (Quiescent /\ ~ overlapped) =>
    \A i \in 1..Len(students) :
      students[i].weeks[1].attended
        <=> (Count(history, HistoryRecord(students[i].id, 1)) > 0)

\* both calls have answered, the week is not attended and its record exists
C6_Witness ==
  /\ Quiescent
  /\ Answered("attend", 200)
  /\ Len(students) = 1
  /\ ~ students[1].weeks[1].attended
  /\ Count(history, HistoryRecord(students[1].id, 1)) = 1

\* the other outcome of the same race: attended and no record
C6_WitnessNoRecord ==
  /\ Quiescent
  /\ Answered("attend", 200)
  /\ Len(students) = 1
  /\ students[1].weeks[1].attended
  /\ Count(history, HistoryRecord(students[1].id, 1)) = 0

EffectivelyEmpty(b) == \A f \in DOMAIN b : b[f] \in {Undefined, Null, ""}

\* C7: an Update of an existing student in which every field is undefined,
\* null or empty answers 400 and leaves the students collection unmodified.
C7_EmptyUpdateRejected ==
  [][\A id \in Ids, b \in UpdateBodies :
       (resp'.op = "update" /\ Update(GoodToken, id, b)
          /\ FindOne(students, id) # 0 /\ EffectivelyEmpty(b)) =>
         (resp'.status = 400 /\ students' = students)]_vars

StoredName(f) == IF f = "parents_phone" THEN "parentsPhone" ELSE f

\* C8: a successful Update writes exactly the request fields that are defined
\* and non-empty; every other field of the student, and every other student,
\* keeps its value.
C8_UpdateAppliesNonEmpty ==
  [][\A id \in Ids, b \in UpdateBodies :
       (resp'.op = "update" /\ resp'.status = 200 /\ Update(GoodToken, id, b)) =>
         /\ Len(students') = Len(students)
         /\ \A i \in 1..Len(students) :
              i # FindOne(students, id) => students'[i] = students[i]
         /\ students'[FindOne(students, id)].id = students[FindOne(students, id)].id
         /\ students'[FindOne(students, id)].weeks = students[FindOne(students, id)].weeks
         /\ \A f \in DOMAIN b :
              students'[FindOne(students, id)][StoredName(f)] =
                IF b[f] \in {Undefined, Null, ""}
                  THEN students[FindOne(students, id)][StoredName(f)]
                  ELSE b[f]]_vars

\* the week index the request asks for: attendanceWeek - 1, week 1 when
\* attendanceWeek is absent (0 is read as absent, as the handler reads it)
RequestedIndex(b) ==
  IF b.attendanceWeek = << >> \/ b.attendanceWeek[1] = 0 THEN 0 ELSE b.attendanceWeek[1] - 1

\* C9: a toggle-attendance call on an existing student whose week index is
\* below 0 or at least the length of the weeks answers 400 and changes neither
\* the students nor the history collection.
C9_OutOfBoundsRejected ==
  [][\A id \in Ids, b \in Stamped(1) :
       (resp'.op = "attend" /\ Attend(GoodToken, id, b) /\ FindOne(students, id) # 0
          /\ RequestedIndex(b) \notin 0..(Len(students[FindOne(students, id)].weeks) - 1)) =>
         (resp'.status = 400 /\ students' = students /\ history' = history)]_vars

\* C10: a successful toggle-attendance call with attended = FALSE for week w
\* leaves that WeekRecord with attended = FALSE, lastAttendance = null,
\* lastAttendanceCenter = null, hwDone = FALSE, paidSession = FALSE,
\* quizDegree = null, message_state = FALSE, and leaves no record
\* {studentId, week: w} in the history collection.
C10_UnattendClearsWeek ==
  [][(resp'.op = "attend" /\ resp'.status = 200 /\ Len(history') <= Len(history)) =>
     \A id \in {i \in Ids : HasStudent(students, i)},
        b \in {x \in AttendBodies : ~ x.attended} :
       Attend(GoodToken, id, b) =>
         /\ students'[FindOne(students, id)].weeks[WeekNumber(b)].attended = FALSE
         /\ students'[FindOne(students, id)].weeks[WeekNumber(b)].lastAttendance = Null
         /\ students'[FindOne(students, id)].weeks[WeekNumber(b)].lastAttendanceCenter = Null
         /\ students'[FindOne(students, id)].weeks[WeekNumber(b)].hwDone = FALSE
         /\ students'[FindOne(students, id)].weeks[WeekNumber(b)].paidSession = FALSE
         /\ students'[FindOne(students, id)].weeks[WeekNumber(b)].quizDegree = Null
         /\ students'[FindOne(students, id)].weeks[WeekNumber(b)].message_state = FALSE
         /\ Count(history', HistoryRecord(id, WeekNumber(b))) = 0]_vars

\* an attend call has just succeeded, week 1 of student 1 is zeroed and has no
\* record, and week 2 is attended and has its record
C10_Witness ==
  /\ Answered("attend", 200)
  /\ Len(students) >= 1
  /\ students[1].weeks[1] = ZeroWeek(1)
  /\ Count(history, HistoryRecord(students[1].id, 1)) = 0
  /\ students[1].weeks[2].attended
  /\ Count(history, HistoryRecord(students[1].id, 2)) = 1


\* the week a request names: the first week when it names none
NamedWeek(b) == IF b.attendanceWeek = << >> THEN 1 ELSE b.attendanceWeek[1]

NamesWeek(b) == NamedWeek(b) \in 1..NumWeeks

\* a date or center string of a request, null when it is not supplied
SuppliedOrNull(v) == IF v \in {Undefined, Null, ""} THEN Null ELSE v

\* the history read of this store holds a row {studentId: id, week: w}
HistoryShows(coll, h, id, w) ==
  LET groups == HistoryGet(coll, h)
  IN  \E g \in 1..Len(groups) :
        /\ groups[g].id = id
        /\ \E k \in 1..Len(groups[g].historyRecords) :
             /\ groups[g].historyRecords[k].studentId = id
             /\ groups[g].historyRecords[k].week = w

\* C11: a successful toggle-attendance call with attended = true for week w
\* sets attended of that week to TRUE, stores the supplied date and center
\* (null when not supplied) and inserts one history record {studentId, week: w};
\* the following read of the student shows attended = TRUE at index w - 1 and
\* the following history read holds a row {studentId, week: w}.
C11_AttendMarksWeekAndInsertsHistory ==
  [][(resp'.op = "attend" /\ resp'.status = 200) =>
     \A id \in {1, MaxId}, b \in {x \in AttendBodies : x.attended /\ NamesWeek(x)} :
       (/\ Len(history') = Len(history) + 1
        /\ history'[Len(history')].week = NamedWeek(b)
        /\ Attend(GoodToken, id, b))
       => /\ students'[FindOne(students', id)].weeks[NamedWeek(b)].attended = TRUE
          /\ students'[FindOne(students', id)].weeks[NamedWeek(b)].lastAttendance
               = SuppliedOrNull(b.lastAttendance)
          /\ students'[FindOne(students', id)].weeks[NamedWeek(b)].lastAttendanceCenter
               = SuppliedOrNull(b.lastAttendanceCenter)
          /\ Count(history', [studentId |-> id, week |-> NamedWeek(b)])
               = Count(history, [studentId |-> id, week |-> NamedWeek(b)]) + 1
          /\ StudentInfo(students'[FindOne(students', id)]).weeks[NamedWeek(b)].attended = TRUE
          /\ HistoryShows(students', history', id, NamedWeek(b))]_vars

\* week 1 of student 1 was marked by a request without date and center, and
\* week 2 by a request with both
C11_Witness ==
  /\ Answered("attend", 200)
  /\ Len(students) > 0
  /\ students[1].weeks[1].attended /\ students[1].weeks[1].lastAttendance = Null
  /\ students[1].weeks[2].attended /\ students[1].weeks[2].lastAttendanceCenter = "Giza"
  /\ history = <<[studentId |-> 1, week |-> 1], [studentId |-> 1, week |-> 2]>>

\* the week record at the 0-based index i of a student document
WeekAt(doc, i) == doc.weeks[i + 1]

\* C12: after any sequence of create, update, reset and toggle-attendance
\* operations every student of the store has exactly 20 week records, and the
\* record at index i has week = i + 1.
C12_TwentyNumberedWeeks ==
  \A s \in 1..Len(students) :
    /\ Len(students[s].weeks) = 20
    /\ \A i \in 0..19 : WeekAt(students[s], i).week = i + 1

\* student 1 was created, renamed, marked attended and then reset
C12_Witness ==
  /\ Answered("reset", 200)
  /\ Len(students) > 0
  /\ students[1].name = "Omar"
  /\ Len(history) > 0

ZeroedWeeks ==
  [i \in 1..20 |->
     [week |-> i, attended |-> FALSE, lastAttendance |-> Null,
      lastAttendanceCenter |-> Null, hwDone |-> FALSE, paidSession |-> FALSE,
      quizDegree |-> Null, message_state |-> FALSE]]

ProfileOf(doc) == [f \in DOMAIN doc \ {"weeks"} |-> doc[f]]

\* C13: reset on an existing student replaces its week records by 20 zeroed
\* records whatever they held and leaves its profile fields unchanged; reset
\* on an id that is not in the store answers 404 and changes nothing.
C13_ResetZeroesWeeks ==
  [][resp'.op = "reset" =>
     \A id \in {1, MaxId} :
       Reset(GoodToken, id) =>
         IF FindOne(students, id) # 0
           THEN /\ resp'.status = 200
                /\ Len(students') = Len(students)
                /\ students'[FindOne(students, id)].weeks = ZeroedWeeks
                /\ ProfileOf(students'[FindOne(students, id)])
                     = ProfileOf(students[FindOne(students, id)])
                /\ \A s \in 1..Len(students) :
                     s # FindOne(students, id) => students'[s] = students[s]
           ELSE /\ resp'.status = 404
                /\ UNCHANGED <<students, history, assistants>>]_vars

\* a reset has zeroed student 1 whose weeks 1 and 2 had been marked attended
C13_Witness ==
  /\ Answered("reset", 200)
  /\ Len(students) > 0
  /\ students[1].weeks = ZeroedWeeks
  /\ Count(history, [studentId |-> 1, week |-> 1]) > 0
  /\ Count(history, [studentId |-> 1, week |-> 2]) > 0

AssistantOps ==
  {"getAssistants", "createAssistant", "getAssistant", "updateAssistant", "deleteAssistant"}

\* C14: no operation of the assistant record service returns a password,
\* hashed or not: neither the body of the read of one assistant nor any
\* element of the listing has a password field.
C14_NoPasswordReturned ==
  (resp.op \in AssistantOps /\ "data" \in DOMAIN resp.body) =>
    IF resp.op = "getAssistants"
      THEN \A i \in 1..Len(resp.body.data) : "password" \notin DOMAIN resp.body.data[i]
      ELSE "password" \notin DOMAIN resp.body.data

\* C15: every token-gated operation of the student, history and assistant
\* services answers 401 to a request whose bearer token is present but fails
\* signature verification or is expired.
C15_InvalidTokenUnauthorized ==
  [][\A tok \in {BadToken, ExpiredToken} :
       (StudentRequest(tok) \/ AdminRequest(tok)) => resp'.status = 401]_vars

\* the response carries no data of a collection
NoData(r) == r.status # 200 /\ ("body" \in DOMAIN r => "data" \notin DOMAIN r.body)

\* C16: a request without a valid bearer token changes none of the students,
\* history and assistants collections and receives none of their data; an
\* admin-only assistant operation called with a valid token whose role is
\* not "admin" answers 403 and changes nothing.
C16_NoAccessWithoutValidToken ==
  [][/\ \A tok \in {NoToken, BadToken, ExpiredToken} :
          (StudentRequest(tok) \/ AdminRequest(tok))
          => UNCHANGED <<students, history, assistants>> /\ NoData(resp')
     /\ AdminRequest(GoodToken)
          => /\ resp'.status = 403
             /\ UNCHANGED <<students, history, assistants>>
             /\ NoData(resp')]_vars

\* a request on the assistants was refused with 403 while all three
\* collections hold documents
C16_Witness ==
  /\ resp.op \in AssistantOps /\ resp.status = 403
  /\ Len(students) > 0 /\ Len(history) > 0 /\ Len(assistants) > 0

UniqueAssistantIds(coll) ==
  \A i, j \in 1..Len(coll) : coll[i].id = coll[j].id => i = j

Supplied(v) == v \notin {Undefined, Null, "", " "}

\* C17: the ids of the assistants stay unique under create, update and delete
\* requests handled one at a time; a create with an id already in the store
\* and an update that changes the id to one already in the store answer 409
\* and leave the assistants collection unchanged.
C17_AssistantIdsUnique ==
  [][/\ UniqueAssistantIds(assistants')
     /\ resp'.op = "createAssistant" =>
          \A b \in AssistantBodies :
            (/\ \A f \in DOMAIN b : Supplied(b[f])
             /\ \E i \in 1..Len(assistants) : assistants[i].id = b.id
             /\ CreateAssistant(AdminToken, b))
            => resp'.status = 409 /\ UNCHANGED assistants
     /\ resp'.op = "updateAssistant" =>
          \A id \in AssistantIds, b \in AssistantUpdates :
            (/\ Supplied(b.id) /\ b.id # id
             /\ \E i \in 1..Len(assistants) : assistants[i].id = b.id
             /\ UpdateAssistant(AdminToken, id, b))
            => resp'.status = 409 /\ UNCHANGED assistants]_vars

\* an update of the id to that of the other assistant was answered 409
C17_Witness ==
  /\ Answered("updateAssistant", 409)
  /\ Len(assistants) = 2
  /\ assistants[1].id # assistants[2].id

\* the stored assistant with this id, when there is one
Known(id) == \E i \in 1..Len(assistants) : assistants[i].id = id

StoredAssistant(id) == assistants[CHOOSE i \in 1..Len(assistants) : assistants[i].id = id]

IssuesToken(r) == r.status = 200 /\ "token" \in DOMAIN r.body

\* C18: login issues a token, carrying {assistant_id, name, role} of the stored
\* assistant and valid for 2 hours, if and only if the supplied id exists and
\* the password matches its stored hash; an unknown id answers 401
\* "user_not_found", a known id with a wrong password 401 "wrong_password",
\* and no login attempt changes the store.
C18_LoginIssuesTokenIffMatch ==
  [][resp'.op = "login" =>
     \A b \in LoginBodies :
       Login(b) =>
         /\ UNCHANGED <<students, history, assistants>>
         /\ IssuesToken(resp') <=>
              (/\ Supplied(b.assistant_id) /\ Known(b.assistant_id)
               /\ Supplied(b.password)
               /\ StoredAssistant(b.assistant_id).password = Hash(b.password))
         /\ IssuesToken(resp') =>
              /\ resp'.body.token.payload =
                   [assistant_id |-> StoredAssistant(b.assistant_id).id,
                    name |-> StoredAssistant(b.assistant_id).name,
                    role |-> StoredAssistant(b.assistant_id).role]
              /\ resp'.body.token.validSeconds = 2 * 3600
         /\ (Supplied(b.assistant_id) /\ Supplied(b.password) /\ ~ Known(b.assistant_id))
              => resp'.status = 401 /\ resp'.body = [error |-> "user_not_found"]
         /\ (/\ Supplied(b.assistant_id) /\ Supplied(b.password) /\ Known(b.assistant_id)
             /\ StoredAssistant(b.assistant_id).password # Hash(b.password))
              => resp'.status = 401 /\ resp'.body = [error |-> "wrong_password"]]_vars

\* an assistant whose password was changed has logged in with the new one
C18_Witness ==
  /\ resp.op = "login" /\ IssuesToken(resp)
  /\ resp.body.token.payload.role = "assistant"
  /\ Known(resp.body.token.payload.assistant_id)
  /\ StoredAssistant(resp.body.token.payload.assistant_id).password = Hash("pw2")

\* the 0-based index of the first attended week of a student, 0 when none
FirstAttended(doc) ==
  IF \E i \in 0..19 : WeekAt(doc, i).attended
    THEN Min({i \in 0..19 : WeekAt(doc, i).attended})
    ELSE 0

\* the fields of a read that come from the selected week record
WeekPart(view) ==
  [f \in {"attended_the_session", "lastAttendanceCenter", "attendanceWeek", "hwDone",
          "paidSession", "quizDegree", "message_state"} |-> view[f]]

ShowsWeek(view, w) ==
  /\ view.attended_the_session = w.attended
  /\ view.attendanceWeek = AttendanceWeekLabel(w)
  /\ view.lastAttendanceCenter = w.lastAttendanceCenter
  /\ view.hwDone = w.hwDone
  /\ view.paidSession = w.paidSession
  /\ view.quizDegree = w.quizDegree
  /\ view.message_state = w.message_state

Surviving(r) ==
  \E s \in 1..Len(students) :
    /\ students[s].id = r.studentId
    /\ r.week \in 1..20
    /\ students[s].weeks[r.week].attended

\* C20: a history read returns one group per student with at least one
\* surviving row, no student is in two groups, no group is empty, and the
\* groups are in strictly ascending order of student id.
C20_HistoryGroupsSorted ==
  LET groups == HistoryGet(students, history)
  IN  /\ \A id \in Ids :
           Cardinality({g \in 1..Len(groups) : groups[g].id = id})
             = IF \E k \in 1..Len(history) :
                     history[k].studentId = id /\ Surviving(history[k])
                 THEN 1 ELSE 0
      /\ \A g \in 1..Len(groups) : Len(groups[g].historyRecords) > 0
      /\ \A g \in 1..(Len(groups) - 1) : groups[g].id < groups[g + 1].id

\* student 2 attended before student 1 and both rows survive
C20_Witness ==
  /\ Len(history) = 2
  /\ history[1].studentId = 2 /\ history[2].studentId = 1
  /\ Surviving(history[1]) /\ Surviving(history[2])
  /\ Len(HistoryGet(students, history)) = 2

\* C21: deleting a student removes only that student: the history collection and
\* every other student are unchanged, the records of the deleted student stay
\* in the store and no history read returns them while no student has that
\* id; delete on an absent id answers 404 and changes nothing.
C21_DeleteRemovesOnlyStudent ==
  /\ [](LET groups == HistoryGet(students, history)
        IN  \A g \in 1..Len(groups) : HasStudent(students, groups[g].id))
  /\ [][resp'.op = "delete" =>
        \A id \in Ids :
          Delete(GoodToken, id) =>
            IF HasStudent(students, id)
              THEN /\ resp'.status = 200
                   /\ history' = history
                   /\ Len(students') = Len(students) - 1
                   /\ students' = SelectSeq(students, LAMBDA d : d.id # id)
                   /\ LET groups == HistoryGet(students', history')
                      IN  \A g \in 1..Len(groups) : groups[g].id # id
              ELSE /\ resp'.status = 404
                   /\ UNCHANGED <<students, history, assistants>>]_vars

\* a student was deleted, its record is still in the store and another
\* student remains
C21_Witness ==
  /\ Answered("delete", 200)
  /\ Len(students) > 0
  /\ \E k \in 1..Len(history) : ~ HasStudent(students, history[k].studentId)

RowsOf(groups, id, w) ==
  {<<g, k>> \in (1..Len(groups)) \X (1..MaxHistory) :
     /\ groups[g].id = id
     /\ k <= Len(groups[g].historyRecords)
     /\ groups[g].historyRecords[k].week = w}

\* C24: after any sequence of attend and un-attend calls executed one at a time
\* the history collection holds at most one record per (studentId, week), and
\* a history read returns at most one row per (student, week).
C24_OneRecordPerStudentWeek ==
  /\ \A k \in 1..Len(history) : Count(history, history[k]) <= 1
  /\ LET groups == HistoryGet(students, history)
     IN  \A id \in Ids, w \in 1..20 : Cardinality(RowsOf(groups, id, w)) <= 1

\* C25: a toggle-attendance call for student s and week w leaves unchanged
\* every other student, every other week record of s, the profile fields of s
\* and every history record of another (student, week) pair; with attended =
\* true it also leaves hwDone, paidSession, quizDegree and message_state of
\* week w unchanged.
C25_AttendTouchesOneWeek ==
  [][/\ (resp'.op = "attend" /\ resp'.status # 200) => UNCHANGED <<students, history>>
     /\ (resp'.op = "attend" /\ resp'.status = 200) =>
          \A id \in {i \in {1, MaxId} : HasStudent(students, i)},
             b \in {x \in AttendBodies : NamesWeek(x)} :
            (/\ b.attended = (Len(history') > Len(history))
             /\ students'[FindOne(students, id)].weeks[NamedWeek(b)].attended = b.attended
             /\ Attend(GoodToken, id, b))
            => /\ Len(students') = Len(students)
               /\ \A s \in 1..Len(students) :
                    /\ students[s].id # id => students'[s] = students[s]
                    /\ ProfileOf(students'[s]) = ProfileOf(students[s])
                    /\ \A i \in 1..20 :
                         i # NamedWeek(b) => students'[s].weeks[i] = students[s].weeks[i]
                    /\ b.attended =>
                         /\ students'[s].weeks[NamedWeek(b)].hwDone
                              = students[s].weeks[NamedWeek(b)].hwDone
                         /\ students'[s].weeks[NamedWeek(b)].paidSession
                              = students[s].weeks[NamedWeek(b)].paidSession
                         /\ students'[s].weeks[NamedWeek(b)].quizDegree
                              = students[s].weeks[NamedWeek(b)].quizDegree
                         /\ students'[s].weeks[NamedWeek(b)].message_state
                              = students[s].weeks[NamedWeek(b)].message_state
               /\ Others(history', [studentId |-> id, week |-> NamedWeek(b)])
                    = Others(history, [studentId |-> id, week |-> NamedWeek(b)])]_vars

\* the last call was an attend, while week 1 of student 1 is attended with its
\* homework done and was marked attended twice
C25_Witness ==
  /\ Answered("attend", 200)
  /\ Len(students) > 0
  /\ students[1].weeks[1].attended /\ students[1].weeks[1].hwDone
  /\ Count(history, [studentId |-> 1, week |-> 1]) = 2

\* C26: a row {studentId, week} that a history read returns stems from an attend
\* call made for the student that holds that id now: no returned row is the
\* record of a student that has been deleted.
C26_RowsOfCurrentStudent ==
  LET groups == HistoryGet(students, history)
  IN  \A g \in 1..Len(groups) :
        \A k \in 1..Len(groups[g].historyRecords) :
          [studentId |-> groups[g].historyRecords[k].studentId,
           week |-> groups[g].historyRecords[k].week] \notin orphans

----------------------------------------------------------------------------
(* The scan page *)

\* the step sends a request of one of the kinds
Sends(kinds) ==
  scan.request = None /\ scan'.request # None /\ scan'.request[1].kind \in kinds

\* C23: the scan page sends a homework, payment or quiz-grade update for a
\* student and a week only while a week and a center are selected and the
\* attendance it shows for that student and week (the optimistic value when
\* one is set, else the value last read from the server) is true.
C23_UpdatesNeedShownAttendance ==
  [][Sends({"homework", "payment", "quiz"}) =>
       /\ scan.selectedWeek # "" /\ scan.attendanceCenter # ""
       /\ Student(scan) # None
       /\ ShowsAttended(scan)
       /\ scan'.request[1].id = Student(scan)[1].id
       /\ scan'.request[1].week = getWeekNumber(scan.selectedWeek)]_vars

\* a homework update is in flight for a student the page shows as attended
\* by its optimistic value while the data it last read say not attended
C23_Witness ==
  /\ scan.request # None
  /\ scan.request[1].kind = "homework"
  /\ scan.optimisticAttended = Some(TRUE)
  /\ ServerAttended(scan) = Some(FALSE)


\* the step sends the automatic attend request
SendsAutoAttend == Sends({"attend"}) /\ scan'.request[1].auto

\* the automatic attend is sent for a student loaded by a QR scan made while a
\* center and a week were selected, while the attendance read from the server
\* for the selected week is false and no optimistic attendance is set
AutoAttendGuarded ==
  SendsAutoAttend =>
    /\ scan.qrLoaded
    /\ ServerAttended(scan) = Some(FALSE)
    /\ scan.optimisticAttended = None
    /\ scan.attendanceCenter # "" /\ scan.selectedWeek # ""

\* the automatic attend is not sent for a student and week that the user has
\* toggled off since the student was loaded
AutoAttendSparesToggledOff ==
  SendsAutoAttend =>
    <<scan'.request[1].id, scan'.request[1].week>> \notin scan.toggledOff

\* C29: the scan page sends an automatic attend request only for a student
\* loaded by a QR scan made while a center and a week were already selected
\* (never for one found by manual search or selection), only while the
\* attendance read from the server for the selected week is false and no
\* optimistic attendance is set, and never for a student and week whose
\* attendance the user has explicitly toggled off on the page.
C29_AutoAttendOnlyAfterScan ==
  [][AutoAttendGuarded /\ AutoAttendSparesToggledOff]_vars


\* the student and the week the page shows, when the server holds the student
Shown ==
  /\ Student(scan) # None
  /\ scan.attendanceCenter # "" /\ scan.selectedWeek # ""
  /\ HasStudent(students, Student(scan)[1].id)

StoredWeek ==
  students[FindOne(students, Student(scan)[1].id)].weeks[getWeekNumber(scan.selectedWeek)]

\* the three badges of the page say what the server stores
ShowsStored ==
  Shown => /\ ShowsAttended(scan) = StoredWeek.attended
           /\ ShowsHwDone(scan) = StoredWeek.hwDone
           /\ ShowsPaid(scan) = StoredWeek.paidSession

\* C22: once nobody acts any more, neither the user of the scan page nor
\* another assistant, while the student is still polled and the requests in
\* flight are answered, the attendance, homework and payment the page shows
\* for the selected student and week end up equal to what the server stores.
C22_ShownStateCatchesUp == <>[][ScanQuiet]_vars => <>[]ShowsStored


----------------------------------------------------------------------------
(* The application shell *)

\* C27: the shell never renders the component of an admin-only page to an
\* authenticated user whose role is not admin: on an admin route such a user
\* is shown a preloader until the redirect to /dashboard.
C27_AdminPageHiddenFromAssistants ==
  (shell.pathname \in adminPages /\ shell.isAuthenticated /\ shell.token = GoodToken)
    => Renders(shell) # "Component"


\* the token in session storage is none that the server accepts
TokenUnusable == shell.token \in {NoToken, BadToken, ExpiredToken}

----------------------------------------------------------------------------
(* The session-info page *)

\* the first render after a state update still has the list that handleFilter
\* computed before it, the second one has the new list
StaleRender == Rendering(info', info.filtered)
SettledRender == Rendering(info, info.filtered)

HaveMainCenter(r) == \A i \in DOMAIN r.dataToCount : r.dataToCount[i].main_center # NoText

StatisticsAgree(r) ==
  HaveMainCenter(r) =>
    /\ totalAttended(r) = MC(r) + NMC(r)
    /\ totalAttended(r) = Cardinality(filteredStudents(r))
    /\ MC_students(r) \cap NMC_students(r) = {}
    /\ MC(r) + NAMC(r) <= mainCenterTotal(r)

\* C30: in every render of the session-info page over students that each have
\* a main_center, whatever grade, center and week are selected, Total Attended
\* is MC + NMC and the number of rows of the attended table, no student is
\* counted in both MC and NMC, and MC plus the number of not-attended
\* main-center students is at most the main-center total
C30_StatisticsAgree ==
  /\ []StatisticsAgree(SettledRender)
  /\ [][StatisticsAgree(StaleRender)]_vars

\* week 01 selected, one student attended in the main center and one who
\* belongs to another center attended here too
C30_Witness ==
  /\ HaveMainCenter(SettledRender)
  /\ SettledRender.weekNumber = 1
  /\ MC(SettledRender) = 1 /\ NMC(SettledRender) = 1
  /\ Cardinality(filteredStudents(SettledRender)) = 2

====
